---- MODULE Spec2Model ----
(***************************************************************************)
(* hyper-micro: the LMDB document adapter (db module) and the HTTP         *)
(* handlers of the data API and of the admin database browser that call    *)
(* it.  Strings are sequences of UTF-16 code units; document values are    *)
(* written as their JSON text.                                             *)
(***************************************************************************)
EXTENDS Integers, Sequences, FiniteSets, TLC

VARIABLES
  rootDb,     \* the engine handle is open (rootDb is not null)
  metaDb,     \* the handle of the metadata keyspace is open
  dbCache,    \* the names of the cached keyspace handles
  kv,         \* the storage environment on disk: keyspace name -> key -> value
  resp,       \* the response to the last request
  lastQuery,  \* the query options of the last list-documents request
  issued,     \* the raw API keys handed out so far: credential id -> raw key
  revoked,    \* the credential ids whose revocation has completed
  handled,    \* the router whose handler ran for the last request
  buckets,    \* the storage directory: bucket directory name -> file names
  calls,      \* the handlers suspended at an await: call id -> its position
  adminEnv,   \* ADMIN_EMAIL, ADMIN_PASSWORD and JWT_SECRET of the process
  now,        \* Date.now(), in milliseconds
  loginAttempts, \* rate limit entries: client IP -> [count, resetAt]
  adminUser   \* what the admin gate set in the context of the last request

vars ==
  <<rootDb, metaDb, dbCache, kv, resp, lastQuery, issued, revoked, handled,
    buckets, calls, adminEnv, now, loginAttempts, adminUser>>

\* what the callers hold, what the last request reached, the file store and
\* the suspended handlers
keyVars ==
  <<issued, revoked, handled, buckets, calls, adminEnv, now, loginAttempts,
    adminUser>>
\* the admin configuration, the clock, the login rate limiter and the context
adminVars == <<adminEnv, now, loginAttempts, adminUser>>

----------------------------------------------------------------------------
(* Strings                                                                 *)

\* '__meta', the name initializeLmdb opens the metadata keyspace under
META_DB == <<95, 95, 109, 101, 116, 97>>
\* '__keys'
KEYS_DB == <<95, 95, 107, 101, 121, 115>>
\* '__system', the keyspace of the credential records
SYSTEM_DB == <<95, 95, 115, 121, 115, 116, 101, 109>>
\* const SYSTEM_DBS = ['__meta', '__keys']
SYSTEM_DBS == {META_DB, KEYS_DB}

\* an optional string option that is not given (undefined)
NoStr == <<-1>>

\* the names and keys of the bounded universe: "a", "b", "aa", "ab", "a\uFFFF"
StrA == <<97>>
StrB == <<98>>
StrAA == <<97, 97>>
StrAB == <<97, 98>>
StrAMax == <<97, 65535>>

AllDbs == {StrA, StrB, META_DB, KEYS_DB, SYSTEM_DB}

\* key order of the engine's range iteration and of Array.prototype.sort():
\* lexicographic on code units
RECURSIVE StrLT(_, _)
StrLT(a, b) ==
  IF b = <<>> THEN FALSE
  ELSE IF a = <<>> THEN TRUE
  ELSE IF Head(a) # Head(b) THEN Head(a) < Head(b)
  ELSE StrLT(Tail(a), Tail(b))

StrLE(a, b) == a = b \/ StrLT(a, b)

\* ascending sequence of the elements of a finite set of strings
RECURSIVE SortedSeq(_)
SortedSeq(S) ==
  IF S = {} THEN <<>>
  ELSE LET m == CHOOSE x \in S : \A y \in S : StrLE(x, y)
       IN <<m>> \o SortedSeq(S \ {m})

----------------------------------------------------------------------------
(* Values                                                                  *)

\* what db.get returns for a key that holds nothing
Undefined == "undefined"
\* JSON values, as JSON text: null, false, 0, the empty string, 1, an object
FalsyValues == {"null", "false", "0", "\"\""}
TruthyValues == {"1", "{\"n\":1}"}
Values == FalsyValues \cup TruthyValues
\* JSON.stringify({created, name}): a non-empty string
MetaRecord == "\"{created,name}\""

\* JavaScript truthiness of a value read from the engine
Truthy(v) == v # Undefined /\ v \notin FalsyValues

\* a keyspace is a function from the keys it holds to their values
EmptyKeyspace == [k \in {} |-> Undefined]

\* db.get(key)
Get(ks, key) == IF key \in DOMAIN ks THEN ks[key] ELSE Undefined

----------------------------------------------------------------------------
(* The adapter: every function maps the module state st to a result        *)
(* [st, err] (err = NoErr when it returns normally).                       *)

NoErr == ""
ErrNotInit == "LMDB not initialized"
ErrExists == "already exists"
ErrNotFound == "not found"

Cur == [rootDb |-> rootDb, metaDb |-> metaDb, dbCache |-> dbCache, kv |-> kv]

Ok(st) == [st |-> st, err |-> NoErr]
Throw(st, e) == [st |-> st, err |-> e]

\* db.put(key, value)
put(st, db, key, value) ==
  [st EXCEPT !.kv[db] = [k \in DOMAIN @ \cup {key} |-> IF k = key THEN value ELSE @[k]]]
\* db.remove(key)
remove(st, db, key) ==
  [st EXCEPT !.kv[db] = [k \in DOMAIN @ \ {key} |-> @[k]]]

initializeLmdb(st) == [st EXCEPT !.rootDb = TRUE, !.metaDb = TRUE]

shutdownLmdb(st) ==
  IF st.rootDb
  THEN [st EXCEPT !.rootDb = FALSE, !.metaDb = FALSE, !.dbCache = {}]
  ELSE st

getDb(st, name) ==
  IF ~st.rootDb THEN Throw(st, ErrNotInit)
  ELSE Ok([st EXCEPT !.dbCache = @ \cup {name}])

createDatabase(st, name) ==
  IF ~st.metaDb THEN Throw(st, ErrNotInit)
  ELSE IF Truthy(Get(st.kv[META_DB], name)) THEN Throw(st, ErrExists)
  ELSE LET g == getDb(st, name)
       IN IF g.err # NoErr THEN g
          ELSE Ok(put(g.st, META_DB, name, MetaRecord))

deleteDatabase(st, name) ==
  IF ~st.rootDb \/ ~st.metaDb THEN Throw(st, ErrNotInit)
  ELSE IF ~Truthy(Get(st.kv[META_DB], name)) THEN Throw(st, ErrNotFound)
  ELSE LET cleared ==
             IF name \in st.dbCache
             THEN [st EXCEPT !.kv[name] = EmptyKeyspace, !.dbCache = @ \ {name}]
             ELSE st
       IN Ok(remove(cleared, META_DB, name))

\* the names listDatabases returns
listDatabases(st) ==
  SortedSeq({k \in DOMAIN st.kv[META_DB] : k \notin SYSTEM_DBS})

databaseExists(st, name) ==
  IF ~st.metaDb THEN FALSE ELSE Truthy(Get(st.kv[META_DB], name))

trackDatabase(st, name) ==
  IF ~st.metaDb THEN Throw(st, ErrNotInit)
  ELSE IF ~Truthy(Get(st.kv[META_DB], name))
       THEN Ok(put(st, META_DB, name, MetaRecord))
       ELSE Ok(st)

untrackDatabase(st, name) ==
  IF ~st.metaDb THEN Throw(st, ErrNotInit)
  ELSE Ok(remove(st, META_DB, name))

createDocument(st, dbName, key, value) ==
  LET g == getDb(st, dbName)
  IN IF g.err # NoErr THEN g
     ELSE IF Truthy(Get(g.st.kv[dbName], key)) THEN Throw(g.st, ErrExists)
     ELSE Ok(put(g.st, dbName, key, value))

\* value is what db.get returned; getDocument returns null when it is undefined
getDocument(st, dbName, key) ==
  LET g == getDb(st, dbName)
  IN IF g.err # NoErr THEN [st |-> g.st, err |-> g.err, value |-> Undefined]
     ELSE [st |-> g.st, err |-> NoErr, value |-> Get(g.st.kv[dbName], key)]

updateDocument(st, dbName, key, value) ==
  LET g == getDb(st, dbName)
  IN IF g.err # NoErr THEN g
     ELSE IF ~Truthy(Get(g.st.kv[dbName], key)) THEN Throw(g.st, ErrNotFound)
     ELSE Ok(put(g.st, dbName, key, value))

deleteDocument(st, dbName, key) ==
  LET g == getDb(st, dbName)
  IN IF g.err # NoErr THEN g
     ELSE IF ~Truthy(Get(g.st.kv[dbName], key)) THEN Throw(g.st, ErrNotFound)
     ELSE Ok(remove(g.st, dbName, key))

----------------------------------------------------------------------------
(* listDocuments                                                           *)

\* limit = 1000 when the option is not given
DEFAULT_LIMIT == 1000
\* String.fromCharCode keeps the low 16 bits of its argument
CodeUnitModulus == 65536

Min(a, b) == IF a < b THEN a ELSE b
Take(seq, n) == SubSeq(seq, 1, Min(n, Len(seq)))

\* if (prefix): given and not the empty string
HasPrefix(options) == options.prefix # NoStr /\ options.prefix # <<>>

\* a variant that appends the highest code unit to the prefix instead
PrefixEndAppend(prefix) == prefix \o <<CodeUnitModulus - 1>>

\* prefix.slice(0, -1) + String.fromCharCode(prefix.charCodeAt(prefix.length - 1) + 1)
PrefixEnd(prefix) ==
  SubSeq(prefix, 1, Len(prefix) - 1)
    \o <<(prefix[Len(prefix)] + 1) % CodeUnitModulus>>

\* a variant that leaves start unset when no prefix is given
RangeStartUnset(options) ==
  IF HasPrefix(options) THEN options.prefix ELSE NoStr

\* start = prefix, or start = startKey
RangeStart(options) ==
  IF HasPrefix(options) THEN options.prefix ELSE options.startKey

RangeEnd(options) ==
  IF HasPrefix(options) THEN PrefixEnd(options.prefix) ELSE options.endKey

\* limit option: <<>> when not given, <<n>> when given
LimitOf(options) ==
  IF options.limit = <<>> THEN DEFAULT_LIMIT ELSE options.limit[1]

\* a range whose start bound is exclusive
getRangeAfter(ks, start, end, limit) ==
  LET inRange == {k \in DOMAIN ks :
                    /\ (start = NoStr \/ StrLT(start, k))
                    /\ (end = NoStr \/ StrLT(k, end))}
      keys == Take(SortedSeq(inRange), limit)
  IN [i \in 1..Len(keys) |-> <<keys[i], ks[keys[i]]>>]

\* db.getRange({start, end, limit}): the entries of the keyspace with
\* start <= key < end in ascending key order, at most limit of them
getRange(ks, start, end, limit) ==
  LET inRange == {k \in DOMAIN ks :
                    /\ (start = NoStr \/ StrLE(start, k))
                    /\ (end = NoStr \/ StrLT(k, end))}
      keys == Take(SortedSeq(inRange), limit)
  IN [i \in 1..Len(keys) |-> <<keys[i], ks[keys[i]]>>]

\* for await (...) { docs.push(...); if (docs.length >= limit) break; }
RECURSIVE Collect(_, _, _)
Collect(entries, docs, limit) ==
  IF entries = <<>> THEN docs
  ELSE LET pushed == Append(docs, Head(entries))
       IN IF Len(pushed) >= limit THEN pushed
          ELSE Collect(Tail(entries), pushed, limit)

listDocuments(st, dbName, options) ==
  LET g == getDb(st, dbName)
  IN IF g.err # NoErr THEN [st |-> g.st, err |-> g.err, docs |-> <<>>]
     ELSE [st |-> g.st, err |-> NoErr,
           docs |-> Collect(getRange(g.st.kv[dbName], RangeStart(options),
                                     RangeEnd(options), LimitOf(options)),
                            <<>>, LimitOf(options))]

Options(startKey, endKey, limit, prefix) ==
  [startKey |-> startKey, endKey |-> endKey, limit |-> limit, prefix |-> prefix]

----------------------------------------------------------------------------
(* Responses: every handler maps the module state to [st, resp]            *)

Response(status, docs, dbs) == [status |-> status, docs |-> docs, databases |-> dbs]
Status(status) == Response(status, <<>>, <<>>)

Reply(st, r) == [st |-> st, resp |-> r]

\* /^[a-zA-Z0-9_-]+$/
NameChars == (48..57) \cup (65..90) \cup (97..122) \cup {95, 45}
ValidDbName(name) == name # <<>> /\ \A i \in 1..Len(name) : name[i] \in NameChars
\* dbName.trim() === ''
IsBlank(name) == \A i \in 1..Len(name) : name[i] \in {9, 10, 13, 32}

\* validation/schemas.ts: the schemas for resource names and document keys
MAX_NAME_LENGTH == 64
MAX_KEY_LENGTH == 1024
resourceNameSchema(name) ==
  /\ Len(name) >= 1
  /\ Len(name) <= MAX_NAME_LENGTH
  /\ \A i \in 1..Len(name) : name[i] \in NameChars
documentKeySchema(key) ==
  /\ Len(key) >= 1
  /\ Len(key) <= MAX_KEY_LENGTH
  /\ \A i \in 1..Len(key) : key[i] # 0

----------------------------------------------------------------------------
(* Data API handlers (src/api/data.ts)                                     *)

\* POST /api/dbs/:db
PostDb(st, dbName) ==
  IF IsBlank(dbName) \/ ~ValidDbName(dbName) THEN Reply(st, Status(400))
  ELSE LET c == createDatabase(st, dbName)
           t == trackDatabase(c.st, dbName)
       IN IF c.err # NoErr THEN Reply(c.st, Status(500))
          ELSE IF t.err # NoErr THEN Reply(t.st, Status(500))
          ELSE Reply(t.st, Status(201))

\* DELETE /api/dbs/:db
DeleteDb(st, dbName) ==
  IF dbName = <<>> THEN Reply(st, Status(400))
  ELSE LET d == deleteDatabase(st, dbName)
           u == untrackDatabase(d.st, dbName)
       IN IF d.err # NoErr THEN Reply(d.st, Status(500))
          ELSE IF u.err # NoErr THEN Reply(u.st, Status(500))
          ELSE Reply(u.st, Status(200))

\* GET /api/dbs
GetDbs(st) ==
  IF ~st.metaDb THEN Reply(st, Status(500))
  ELSE Reply(st, Response(200, <<>>, listDatabases(st)))

\* POST /api/dbs/:db/docs with body {key, value}; value = Undefined: no value
PostDoc(st, dbName, key, value) ==
  IF dbName = <<>> \/ key = <<>> \/ value = Undefined THEN Reply(st, Status(400))
  ELSE LET r == createDocument(st, dbName, key, value)
       IN Reply(r.st, IF r.err = NoErr THEN Status(201)
                      ELSE IF r.err = ErrExists THEN Status(409)
                      ELSE Status(500))

\* GET /api/dbs/:db/docs/:id
GetDoc(st, dbName, key) ==
  IF dbName = <<>> \/ key = <<>> THEN Reply(st, Status(400))
  ELSE LET r == getDocument(st, dbName, key)
       IN Reply(r.st, IF r.err # NoErr THEN Status(500)
                      ELSE IF r.value = Undefined THEN Status(404)
                      ELSE Response(200, <<<<key, r.value>>>>, <<>>))

\* PUT /api/dbs/:db/docs/:id with body {value}
PutDoc(st, dbName, key, value) ==
  IF dbName = <<>> \/ key = <<>> \/ value = Undefined THEN Reply(st, Status(400))
  ELSE LET r == updateDocument(st, dbName, key, value)
       IN Reply(r.st, IF r.err = NoErr THEN Status(200)
                      ELSE IF r.err = ErrNotFound THEN Status(404)
                      ELSE Status(500))

\* DELETE /api/dbs/:db/docs/:id
DeleteDoc(st, dbName, key) ==
  IF dbName = <<>> \/ key = <<>> THEN Reply(st, Status(400))
  ELSE LET r == deleteDocument(st, dbName, key)
       IN Reply(r.st, IF r.err = NoErr THEN Status(200)
                      ELSE IF r.err = ErrNotFound THEN Status(404)
                      ELSE Status(500))

\* the limit option the handler passes on, or <<0>> when it answers 400
\* (parsed = <<>>: no limit in the query; <<n>>: parseInt gave n)
ParsedLimit(parsed) ==
  IF parsed = <<>> THEN <<>>
  ELSE IF parsed[1] < 1 THEN <<0>>
  ELSE <<Min(parsed[1], 10000)>>

\* GET /api/dbs/:db/docs?startKey&endKey&limit&prefix
GetDocs(st, dbName, startKey, endKey, parsed, prefix) ==
  IF dbName = <<>> \/ ParsedLimit(parsed) = <<0>> THEN Reply(st, Status(400))
  ELSE LET r == listDocuments(st, dbName,
                              Options(startKey, endKey, ParsedLimit(parsed), prefix))
       IN Reply(r.st, IF r.err # NoErr THEN Status(500)
                      ELSE Response(200, r.docs, <<>>))

----------------------------------------------------------------------------
(* Admin database browser handlers (src/routes/admin.ts)                   *)

\* POST /api/admin/dbs/:name/docs with body {key, value}
AdminPostDoc(st, name, key, value) ==
  IF key = <<>> THEN Reply(st, Status(400))
  ELSE LET c == IF databaseExists(st, name) THEN Ok(st)
                ELSE createDatabase(st, name)
           r == createDocument(c.st, name, key, value)
       IN IF c.err # NoErr THEN Reply(c.st, Status(400))
          ELSE Reply(r.st, IF r.err = NoErr THEN Status(201) ELSE Status(400))

\* PUT /api/admin/dbs/:name/docs/:key with body {value}
AdminPutDoc(st, name, key, value) ==
  LET r == updateDocument(st, name, key, value)
  IN Reply(r.st, IF r.err = NoErr THEN Status(200)
                 ELSE IF r.err = ErrNotFound THEN Status(404)
                 ELSE Status(400))

\* DELETE /api/admin/dbs/:name/docs/:key
AdminDeleteDoc(st, name, key) ==
  LET r == deleteDocument(st, name, key)
  IN Reply(r.st, IF r.err = NoErr THEN Status(200)
                 ELSE IF r.err = ErrNotFound THEN Status(404)
                 ELSE Status(400))

\* POST /api/admin/dbs with body {name}
AdminPostDb(st, name) ==
  IF name = <<>> THEN Reply(st, Status(400))
  ELSE LET c == createDatabase(st, name)
       IN Reply(c.st, IF c.err = NoErr THEN Status(201) ELSE Status(400))

\* DELETE /api/admin/dbs/:name
AdminDeleteDb(st, name) ==
  LET d == deleteDatabase(st, name)
  IN Reply(d.st, IF d.err = NoErr THEN Status(200)
                 ELSE IF d.err = ErrNotFound THEN Status(404)
                 ELSE Status(400))

----------------------------------------------------------------------------
(* API key management (db module)                                          *)

\* 'key:', the prefix of the keys of the credential records
KEY_PREFIX == <<107, 101, 121, 58>>
\* `key:${id}`
CredentialKey(id) == KEY_PREFIX \o id

\* crypto.randomUUID(): the ids it may return, "1" and "2", and their text
Uuid1 == <<49>>
Uuid2 == <<50>>
Uuids == {Uuid1, Uuid2}
UuidText(id) == IF id = Uuid1 THEN "1" ELSE "2"

\* `hm_${crypto.randomBytes(16).toString('hex')}`: the raw keys it may return
RawKeys == {"hm_1", "hm_2"}
\* new Date().toISOString(): the instants a record may be created at
Instants == {"t1", "t2"}
\* new Date(created).getTime(); for a value without a created field it is NaN,
\* whose difference the sort takes for 0: such an entry is ranked first here
GetTime(created) == IF created = "t1" THEN 1 ELSE IF created = "t2" THEN 2 ELSE 0

\* crypto.createHash('sha256').update(key).digest('hex')
hashKey(key) == "sha256(" \o key \o ")"

\* name || 'Unnamed key'
UNNAMED == "Unnamed key"

\* JSON.stringify({id, keyHash, name, created}), stored as a string value
Stringify(rec) ==
  "\"{id:" \o rec.id \o ",keyHash:" \o rec.keyHash \o ",name:" \o rec.name
    \o ",created:" \o rec.created \o "}\""

\* the tokens a request may present: the raw keys, a key of API_KEYS, and a
\* string that is neither
EnvKey == "dev-key-change-in-production"
API_KEYS == {EnvKey}
NoKey == "hm_0"
Tokens == RawKeys \cup {EnvKey, NoKey}

\* a token stored as a document value (a string)
StringValue(token) == "\"" \o token \o "\""

\* the objects whose JSON text a credential record can be
CredentialRecords ==
  [id : {UuidText(i) : i \in Uuids}, keyHash : {hashKey(k) : k \in Tokens},
   name : {UNNAMED}, created : Instants]

\* JSON.parse(value) followed by the reads of the fields of the result:
\* "record" with the object for the text of a credential record; "throw" for
\* null (a field of null is read), for the empty string, for a string that
\* is a token and for an object (none of them is JSON text); "other" for
\* everything else, whose fields are undefined
JsonParse(value) ==
  IF \E rec \in CredentialRecords : Stringify(rec) = value
  THEN [kind |-> "record",
        rec |-> CHOOSE rec \in CredentialRecords : Stringify(rec) = value]
  ELSE IF value \in {"null", "\"\"", "{\"n\":1}"} \cup {StringValue(k) : k \in Tokens}
       THEN [kind |-> "throw"]
       ELSE [kind |-> "other"]

\* db.getRange({ prefix: 'key:' }): the keys of the range in key order
IsCredentialKey(k) ==
  Len(k) >= Len(KEY_PREFIX) /\ SubSeq(k, 1, Len(KEY_PREFIX)) = KEY_PREFIX
CredentialRange(ks) == SortedSeq({k \in DOMAIN ks : IsCredentialKey(k)})

generateApiKey(st, id, rawKey, created) ==
  LET g == getDb(st, SYSTEM_DB)
      rec == [id |-> UuidText(id), keyHash |-> hashKey(rawKey),
              name |-> UNNAMED, created |-> created]
  IN IF g.err # NoErr THEN [st |-> g.st, err |-> g.err, id |-> id, key |-> ""]
     ELSE [st |-> put(g.st, SYSTEM_DB, CredentialKey(id), Stringify(rec)),
           err |-> NoErr, id |-> id, key |-> rawKey]

\* the loop of validateApiKey over the remaining keys of the range: the
\* result, and the keys whose records it has examined
RECURSIVE ScanKeys(_, _, _, _)
ScanKeys(ks, keys, keyHash, examined) ==
  IF keys = <<>> THEN [valid |-> FALSE, err |-> NoErr, examined |-> examined]
  ELSE LET stored == JsonParse(ks[Head(keys)])
           seen == Append(examined, Head(keys))
       IN IF stored.kind = "throw"
          THEN [valid |-> FALSE, err |-> "TypeError", examined |-> seen]
          ELSE IF stored.kind = "record" /\ stored.rec.keyHash = keyHash
          THEN [valid |-> TRUE, err |-> NoErr, examined |-> seen]
          ELSE ScanKeys(ks, Tail(keys), keyHash, seen)

validateApiKey(st, key) ==
  IF ~st.rootDb THEN [valid |-> FALSE, err |-> NoErr, examined |-> <<>>]
  ELSE ScanKeys(st.kv[SYSTEM_DB], CredentialRange(st.kv[SYSTEM_DB]),
                hashKey(key), <<>>)

\* keys.sort((a, b) => getTime(b.created) - getTime(a.created)): stable,
\* latest first
RECURSIVE SortLatestFirst(_)
SortLatestFirst(keys) ==
  IF keys = <<>> THEN <<>>
  ELSE LET i == CHOOSE i \in DOMAIN keys :
                  /\ \A j \in DOMAIN keys :
                       GetTime(keys[j].created) <= GetTime(keys[i].created)
                  /\ \A j \in 1..(i - 1) :
                       GetTime(keys[j].created) < GetTime(keys[i].created)
       IN <<keys[i]>>
            \o SortLatestFirst(SubSeq(keys, 1, i - 1) \o SubSeq(keys, i + 1, Len(keys)))

\* the {id, name, created} pushed for one stored value
KeyInfo(value) ==
  LET stored == JsonParse(value)
  IN IF stored.kind = "record"
     THEN [id |-> stored.rec.id, name |-> stored.rec.name,
           created |-> stored.rec.created]
     ELSE [id |-> Undefined, name |-> Undefined, created |-> Undefined]

listApiKeys(st) ==
  LET g == getDb(st, SYSTEM_DB)
      ks == g.st.kv[SYSTEM_DB]
      range == CredentialRange(ks)
  IN IF g.err # NoErr THEN [st |-> g.st, err |-> g.err, keys |-> <<>>]
     ELSE IF \E i \in DOMAIN range : JsonParse(ks[range[i]]).kind = "throw"
     THEN [st |-> g.st, err |-> "TypeError", keys |-> <<>>]
     ELSE [st |-> g.st, err |-> NoErr,
           keys |-> SortLatestFirst([i \in DOMAIN range |-> KeyInfo(ks[range[i]])])]

\* a revocation that drops every credential record
deleteApiKeyClear(st, id) ==
  LET g == getDb(st, SYSTEM_DB)
  IN IF g.err # NoErr THEN g
     ELSE Ok([g.st EXCEPT !.kv[SYSTEM_DB] = EmptyKeyspace])

deleteApiKey(st, id) ==
  LET g == getDb(st, SYSTEM_DB)
  IN IF g.err # NoErr THEN g
     ELSE Ok(remove(g.st, SYSTEM_DB, CredentialKey(id)))

----------------------------------------------------------------------------
(* Auth API handlers (authApi) and the API key middleware                  *)

\* a response with a body: c.json(body, status)
WithBody(status, body) ==
  [status |-> status, docs |-> <<>>, databases |-> <<>>, body |-> body]

\* POST /api/auth
AuthPost(st, id, rawKey, created) ==
  LET r == generateApiKey(st, id, rawKey, created)
  IN Reply(r.st, IF r.err # NoErr THEN Status(500)
                 ELSE WithBody(201, [ok |-> TRUE, key |-> r.key,
                                     id |-> UuidText(r.id)]))

\* GET /api/auth
AuthGet(st) ==
  LET r == listApiKeys(st)
  IN Reply(r.st, IF r.err # NoErr THEN Status(500)
                 ELSE WithBody(200, [ok |-> TRUE, keys |-> r.keys]))

\* DELETE /api/auth/:id
AuthDelete(st, id) ==
  IF id = <<>> THEN Reply(st, Status(400))
  ELSE LET r == deleteApiKey(st, id)
       IN Reply(r.st, IF r.err # NoErr THEN Status(500) ELSE Status(200))

\* POST /api/auth/validate with body {key}
AuthValidate(st, key) ==
  IF key = "" THEN Reply(st, Status(400))
  ELSE LET r == validateApiKey(st, key)
       IN Reply(st, IF r.err # NoErr THEN Status(500)
                    ELSE WithBody(200, [ok |-> TRUE, valid |-> r.valid]))

\* a request path, as its segments, parameters written as their pattern
AuthPath == <<"api", "auth">>
DataPath == <<"api", "dbs", ":db", "docs", ":id">>
StoragePath == <<"api", "storage", ":bucket">>
StorageRoot == <<"api", "storage">>

\* the paths authMiddleware lets through without a key
SkipsAuth(path) ==
  \/ path = <<>>
  \/ path = <<"login">>
  \/ path = <<"health">>
  \/ Len(path) >= 2 /\ path[1] = "api" /\ path[2] = "auth"
  \/ path \in {<<"api", "login">>, <<"api", "logout">>, <<"api", "me">>,
               <<"api", "admin-status">>}
  \/ Len(path) >= 3 /\ path[1] = "api" /\ path[2] = "admin"
  \/ Len(path) >= 3 /\ path[1] = "api" /\ path[2] = "storage"
  \/ path = <<"api", "storage">>

\* an Authorization header: <<>> when the request has none, else the scheme
\* ("Bearer" or none) and the rest of the header
NoHeader == <<>>
Bearer(token) == <<"Bearer", token>>
Bare(token) == <<"", token>>
\* authHeader.replace(/^Bearer\s+/i, '')
TokenOf(header) == header[2]

\* authMiddleware: 0 when it calls next(), else the status it answers with
\* (500: validateApiKey threw and the error handler answered)
authMiddleware(st, path, header) ==
  IF SkipsAuth(path) THEN 0
  ELSE IF header = NoHeader THEN 401
  ELSE IF TokenOf(header) = "" THEN 401
  ELSE LET isValidEnvKey == TokenOf(header) \in API_KEYS
           v == validateApiKey(st, TokenOf(header))
       IN IF v.err # NoErr THEN 500
          ELSE IF ~isValidEnvKey /\ ~v.valid THEN 401
          ELSE 0

----------------------------------------------------------------------------
(* Storage API handlers (storageApi): buckets                              *)

\* bucket.replace(/[^a-zA-Z0-9_-]/g, '_')
getBucketPath(bucket) ==
  [i \in 1..Len(bucket) |-> IF bucket[i] \in NameChars THEN bucket[i] ELSE 95]

\* POST /api/storage/:bucket
StoragePostBucket(dirs, bucket) ==
  IF IsBlank(bucket) THEN [dirs |-> dirs, resp |-> Status(400)]
  ELSE IF getBucketPath(bucket) \in DOMAIN dirs
       THEN [dirs |-> dirs, resp |-> Status(409)]
       ELSE [dirs |-> [d \in DOMAIN dirs \cup {getBucketPath(bucket)} |->
                         IF d \in DOMAIN dirs THEN dirs[d] ELSE {}],
             resp |-> Status(201)]

\* key.replace(/[^a-zA-Z0-9_.-]/g, '_')
SafeKey(key) ==
  [i \in 1..Len(key) |-> IF key[i] \in NameChars \cup {46} THEN key[i] ELSE 95]

\* ensureBucket(bucket): mkdir unless the directory exists
ensureBucket(dirs, bucket) ==
  [d \in DOMAIN dirs \cup {getBucketPath(bucket)} |->
     IF d \in DOMAIN dirs THEN dirs[d] ELSE {}]

\* DELETE /api/storage/:bucket
StorageDeleteBucket(dirs, bucket) ==
  IF bucket = <<>> THEN [dirs |-> dirs, resp |-> Status(400)]
  ELSE IF getBucketPath(bucket) \notin DOMAIN dirs
       THEN [dirs |-> dirs, resp |-> Status(404)]
       ELSE [dirs |-> [d \in DOMAIN dirs \ {getBucketPath(bucket)} |-> dirs[d]],
             resp |-> Status(200)]

\* PUT /api/storage/:bucket/:key
StoragePutFile(dirs, bucket, key) ==
  IF bucket = <<>> \/ key = <<>> THEN [dirs |-> dirs, resp |-> Status(400)]
  ELSE [dirs |-> [ensureBucket(dirs, bucket) EXCEPT
                    ![getBucketPath(bucket)] = @ \cup {SafeKey(key)}],
        resp |-> Status(201)]

\* DELETE /api/storage/:bucket/:key
StorageDeleteFile(dirs, bucket, key) ==
  IF bucket = <<>> \/ key = <<>> THEN [dirs |-> dirs, resp |-> Status(400)]
  ELSE IF \/ getBucketPath(bucket) \notin DOMAIN dirs
          \/ SafeKey(key) \notin dirs[getBucketPath(bucket)]
       THEN [dirs |-> dirs, resp |-> Status(404)]
       ELSE [dirs |-> [dirs EXCEPT ![getBucketPath(bucket)] = @ \ {SafeKey(key)}],
             resp |-> Status(200)]

\* GET /api/storage
StorageGetBuckets(dirs) ==
  [dirs |-> dirs, resp |-> WithBody(200, [ok |-> TRUE, buckets |-> DOMAIN dirs])]

----------------------------------------------------------------------------
(* Admin authentication (middleware/adminAuth): configuration, JWT, gate   *)

\* an environment variable that is not set
Unset == ""
ADMIN_EMAIL == "admin@example.com"
JWT_SECRET == "secret"
OtherSecret == "other"
\* the bcrypt hash in ADMIN_PASSWORD
PasswordHash == "bcrypt(password)"
FullEnv ==
  [adminEmail |-> ADMIN_EMAIL, adminPassword |-> PasswordHash,
   jwtSecret |-> JWT_SECRET]
NoUser == [email |-> Unset, role |-> Unset]

isAdminAuthConfigured(env) ==
  env.adminEmail # Unset /\ env.adminPassword # Unset /\ env.jwtSecret # Unset

\* expiresIn: '24h', in milliseconds
TOKEN_LIFETIME_MS == 86400000
\* a token that is no JWT at all
Garbage == [kind |-> "garbage"]
\* jwt.sign(payload, secret, { expiresIn }): the payload with iat and exp,
\* and the secret its signature was made with
Sign(email, role, secret, iat, expiresIn) ==
  [kind |-> "jwt", email |-> email, role |-> role, secret |-> secret,
   iat |-> iat, exp |-> iat + expiresIn]
\* jwt.verify(token, secret): throws unless the token is a JWT signed with
\* secret whose exp lies in the future
JwtVerifies(token, secret, clock) ==
  token.kind = "jwt" /\ token.secret = secret /\ clock < token.exp

\* a variant that accepts every role
verifyAdminTokenAnyRole(env, token, clock) ==
  env.jwtSecret # Unset /\ JwtVerifies(token, env.jwtSecret, clock)

\* the payload is returned (TRUE) or null (FALSE)
verifyAdminToken(env, token, clock) ==
  /\ env.jwtSecret # Unset
  /\ JwtVerifies(token, env.jwtSecret, clock)
  /\ token.role = "admin"

generateAdminToken(env, email, clock) ==
  Sign(email, "admin", env.jwtSecret, clock, TOKEN_LIFETIME_MS)

\* adminAuthMiddleware: header is the Authorization header split at ' ', or
\* <<>> when the request has none; next is TRUE when the handler is invoked
adminAuthMiddleware(env, header, clock) ==
  IF ~isAdminAuthConfigured(env)
  THEN [status |-> 500, next |-> FALSE, adminUser |-> NoUser]
  ELSE IF header = <<>>
  THEN [status |-> 401, next |-> FALSE, adminUser |-> NoUser]
  ELSE IF Len(header) # 2 \/ header[1] # "Bearer"
  THEN [status |-> 401, next |-> FALSE, adminUser |-> NoUser]
  ELSE IF ~verifyAdminToken(env, header[2], clock)
  THEN [status |-> 401, next |-> FALSE, adminUser |-> NoUser]
  ELSE [status |-> 0, next |-> TRUE,
        adminUser |-> [email |-> header[2].email, role |-> header[2].role]]

----------------------------------------------------------------------------
(* Login rate limiting (routes/adminAuth)                                  *)

RATE_LIMIT_MAX_ATTEMPTS == 5
RATE_LIMIT_WINDOW_MS == 60000

\* the keys of the loginAttempts map: an entry is <<>> when the map has none
\* for the key, and <<[count, resetAt]>> otherwise
Ips == {"unknown", "ip1", "ip2"}

\* getClientIp: xff is the X-Forwarded-For header split at ',', or <<>> when
\* the request has none
getClientIp(xff) == IF xff # <<>> THEN xff[1] ELSE "unknown"

\* a variant in which the window ends when the clock reaches resetAt
checkRateLimitUpTo(attempts, ip, clock) ==
  IF attempts[ip] = <<>> \/ clock >= attempts[ip][1].resetAt
  THEN FALSE
  ELSE attempts[ip][1].count >= RATE_LIMIT_MAX_ATTEMPTS

\* checkRateLimit(ip).limited
checkRateLimit(attempts, ip, clock) ==
  IF attempts[ip] = <<>> \/ clock > attempts[ip][1].resetAt
  THEN FALSE
  ELSE attempts[ip][1].count >= RATE_LIMIT_MAX_ATTEMPTS

\* recordLoginAttempt(ip): the map afterwards
recordLoginAttempt(attempts, ip, clock) ==
  IF attempts[ip] = <<>> \/ clock > attempts[ip][1].resetAt
  THEN [attempts EXCEPT
          ![ip] = <<[count |-> 1, resetAt |-> clock + RATE_LIMIT_WINDOW_MS]>>]
  ELSE [attempts EXCEPT ![ip][1].count = @ + 1]

\* the body of the setInterval callback: expired entries are deleted
cleanup(attempts, clock) ==
  [ip \in DOMAIN attempts |->
     IF attempts[ip] # <<>> /\ clock > attempts[ip][1].resetAt
     THEN <<>>
     ELSE attempts[ip]]

PASSWORD == "password"
\* bcrypt.compare(password, hash)
bcryptCompare(password, hash) == password = PASSWORD /\ hash = PasswordHash

----------------------------------------------------------------------------
(* Actions: a request is served by the running process and its handler     *)
(* runs to completion                                                      *)

NoQuery == Options(NoStr, NoStr, <<>>, NoStr)

Init ==
  /\ rootDb = TRUE
  /\ metaDb = TRUE
  /\ dbCache = {}
  /\ kv = [d \in AllDbs |-> EmptyKeyspace]
  /\ resp = Status(0)
  /\ lastQuery = NoQuery
  /\ issued = <<>>
  /\ revoked = {}
  /\ handled = "none"
  /\ buckets = <<>>
  /\ calls = <<>>
  /\ adminEnv = FullEnv
  /\ now = 0
  /\ loginAttempts = [ip \in Ips |-> <<>>]
  /\ adminUser = NoUser

Commit(st) ==
  /\ rootDb' = st.rootDb
  /\ metaDb' = st.metaDb
  /\ dbCache' = st.dbCache
  /\ kv' = st.kv

DataCreateDb(dbName) ==
  LET r == PostDb(Cur, dbName)
  IN /\ rootDb
     /\ Commit(r.st)
     /\ resp' = r.resp
     /\ lastQuery' = NoQuery
     /\ UNCHANGED keyVars

DataDeleteDb(dbName) ==
  LET r == DeleteDb(Cur, dbName)
  IN /\ rootDb
     /\ Commit(r.st)
     /\ resp' = r.resp
     /\ lastQuery' = NoQuery
     /\ UNCHANGED keyVars

DataListDbs ==
  LET r == GetDbs(Cur)
  IN /\ rootDb
     /\ Commit(r.st)
     /\ resp' = r.resp
     /\ lastQuery' = NoQuery
     /\ UNCHANGED keyVars

DataCreateDoc(dbName, key, value) ==
  LET r == PostDoc(Cur, dbName, key, value)
  IN /\ rootDb
     /\ Commit(r.st)
     /\ resp' = r.resp
     /\ lastQuery' = NoQuery
     /\ UNCHANGED keyVars

DataGetDoc(dbName, key) ==
  LET r == GetDoc(Cur, dbName, key)
  IN /\ rootDb
     /\ Commit(r.st)
     /\ resp' = r.resp
     /\ lastQuery' = NoQuery
     /\ UNCHANGED keyVars

DataUpdateDoc(dbName, key, value) ==
  LET r == PutDoc(Cur, dbName, key, value)
  IN /\ rootDb
     /\ Commit(r.st)
     /\ resp' = r.resp
     /\ lastQuery' = NoQuery
     /\ UNCHANGED keyVars

DataDeleteDoc(dbName, key) ==
  LET r == DeleteDoc(Cur, dbName, key)
  IN /\ rootDb
     /\ Commit(r.st)
     /\ resp' = r.resp
     /\ lastQuery' = NoQuery
     /\ UNCHANGED keyVars

DataListDocs(dbName, startKey, endKey, parsed, prefix) ==
  LET r == GetDocs(Cur, dbName, startKey, endKey, parsed, prefix)
  IN /\ rootDb
     /\ Commit(r.st)
     /\ resp' = r.resp
     /\ lastQuery' = Options(startKey, endKey, parsed, prefix)
     /\ UNCHANGED keyVars

AdminCreateDoc(name, key, value) ==
  LET r == AdminPostDoc(Cur, name, key, value)
  IN /\ rootDb
     /\ Commit(r.st)
     /\ resp' = r.resp
     /\ lastQuery' = NoQuery
     /\ UNCHANGED keyVars

AdminUpdateDoc(name, key, value) ==
  LET r == AdminPutDoc(Cur, name, key, value)
  IN /\ rootDb
     /\ Commit(r.st)
     /\ resp' = r.resp
     /\ lastQuery' = NoQuery
     /\ UNCHANGED keyVars

AdminRemoveDoc(name, key) ==
  LET r == AdminDeleteDoc(Cur, name, key)
  IN /\ rootDb
     /\ Commit(r.st)
     /\ resp' = r.resp
     /\ lastQuery' = NoQuery
     /\ UNCHANGED keyVars

AdminCreateDb(name) ==
  LET r == AdminPostDb(Cur, name)
  IN /\ rootDb
     /\ Commit(r.st)
     /\ resp' = r.resp
     /\ lastQuery' = NoQuery
     /\ UNCHANGED keyVars

AdminRemoveDb(name) ==
  LET r == AdminDeleteDb(Cur, name)
  IN /\ rootDb
     /\ Commit(r.st)
     /\ resp' = r.resp
     /\ lastQuery' = NoQuery
     /\ UNCHANGED keyVars

\* SIGINT / SIGTERM: shutdownLmdb, then the process exits
Shutdown ==
  /\ rootDb
  /\ Commit(shutdownLmdb(Cur))
  /\ resp' = Status(0)
  /\ lastQuery' = NoQuery
  /\ UNCHANGED keyVars

\* the next process: startServer calls initializeLmdb on the same path
Initialize ==
  /\ ~rootDb
  /\ Commit(initializeLmdb(Cur))
  /\ resp' = Status(0)
  /\ lastQuery' = NoQuery
  /\ UNCHANGED keyVars

\* DELETE /api/storage/:bucket
ReqDeleteBucket(header, bucket) ==
  LET m == authMiddleware(Cur, StoragePath, header)
      r == StorageDeleteBucket(buckets, bucket)
  IN /\ rootDb
     /\ IF m = 0
        THEN buckets' = r.dirs /\ resp' = r.resp /\ handled' = "storageApi"
        ELSE buckets' = buckets /\ resp' = Status(m) /\ handled' = "none"
     /\ Commit(Cur)
     /\ UNCHANGED <<lastQuery, issued, revoked, calls>>
     /\ UNCHANGED adminVars

\* PUT /api/storage/:bucket/:key
ReqPutFile(header, bucket, key) ==
  LET m == authMiddleware(Cur, StoragePath, header)
      r == StoragePutFile(buckets, bucket, key)
  IN /\ rootDb
     /\ IF m = 0
        THEN buckets' = r.dirs /\ resp' = r.resp /\ handled' = "storageApi"
        ELSE buckets' = buckets /\ resp' = Status(m) /\ handled' = "none"
     /\ Commit(Cur)
     /\ UNCHANGED <<lastQuery, issued, revoked, calls>>
     /\ UNCHANGED adminVars

\* DELETE /api/storage/:bucket/:key
ReqDeleteFile(header, bucket, key) ==
  LET m == authMiddleware(Cur, StoragePath, header)
      r == StorageDeleteFile(buckets, bucket, key)
  IN /\ rootDb
     /\ IF m = 0
        THEN buckets' = r.dirs /\ resp' = r.resp /\ handled' = "storageApi"
        ELSE buckets' = buckets /\ resp' = Status(m) /\ handled' = "none"
     /\ Commit(Cur)
     /\ UNCHANGED <<lastQuery, issued, revoked, calls>>
     /\ UNCHANGED adminVars

----------------------------------------------------------------------------
(* Response bodies: the fields of the JSON object a route answers with     *)

\* the body of the data, auth and storage handlers, apart from the payload:
\* { ok: true, ... } or { ok: false, error: message }
JsonBody(status) ==
  IF status < 400 THEN [ok |-> TRUE]
  ELSE [ok |-> FALSE, error |-> "message"]

\* a data API document request with its body
EnvCreateDoc(dbName, key, value) ==
  LET r == PostDoc(Cur, dbName, key, value)
  IN /\ rootDb
     /\ Commit(r.st)
     /\ resp' = WithBody(r.resp.status, JsonBody(r.resp.status))
     /\ handled' = "dataApi"
     /\ UNCHANGED <<lastQuery, issued, revoked, buckets, calls>>
     /\ UNCHANGED adminVars

\* DELETE /api/auth/:id with its body: the catch branch answers
\* { Ok: false, error }
EnvRevokeKey(id) ==
  LET r == AuthDelete(Cur, id)
  IN /\ rootDb
     /\ Commit(r.st)
     /\ resp' = WithBody(r.resp.status,
                         IF r.resp.status = 500
                         THEN [Ok |-> FALSE, error |-> "message"]
                         ELSE JsonBody(r.resp.status))
     /\ handled' = "authApi"
     /\ UNCHANGED <<lastQuery, issued, revoked, buckets, calls>>
     /\ UNCHANGED adminVars

\* app.notFound: a request no route matches
EnvNotFound ==
  /\ rootDb
  /\ Commit(Cur)
  /\ resp' = WithBody(404, [error |-> "Not Found", message |-> "message",
                            timestamp |-> "t"])
  /\ handled' = "notFound"
  /\ UNCHANGED <<lastQuery, issued, revoked, buckets, calls>>
  /\ UNCHANGED adminVars

\* GET /api/admin/stats, behind the admin gate: the counts are answered
\* without ok, a failure of listDatabases or listApiKeys with ok: false
EnvAdminStats ==
  LET k == listApiKeys(Cur)
  IN /\ rootDb
     /\ Commit(k.st)
     /\ resp' = IF ~metaDb \/ k.err # NoErr THEN WithBody(500, JsonBody(500))
                ELSE WithBody(200, [databases |-> Len(listDatabases(Cur)),
                                    apiKeys |-> Len(k.keys),
                                    buckets |-> Cardinality(DOMAIN buckets)])
     /\ handled' = "adminRoutes"
     /\ UNCHANGED <<lastQuery, issued, revoked, buckets, calls>>
     /\ UNCHANGED adminVars

----------------------------------------------------------------------------
(* Handlers step by step: a handler runs up to its next await, and other   *)
(* handlers run while it is suspended                                      *)

CallIds == {1, 2}
StartCall(c, call) ==
  calls' = [i \in DOMAIN calls \cup {c} |-> IF i = c THEN call ELSE calls[i]]
EndCall(c) == calls' = [i \in DOMAIN calls \ {c} |-> calls[i]]
MoveCall(c, pc) == calls' = [calls EXCEPT ![c].pc = pc]
Suspended(c, op, pc) ==
  c \in DOMAIN calls /\ calls[c].op = op /\ calls[c].pc = pc
CallVars ==
  <<lastQuery, issued, revoked, handled, buckets, adminEnv, now, loginAttempts,
    adminUser>>

\* DELETE /api/dbs/:db, deleteDatabase up to `await metaDb.get(name)`
DeleteDbStart(c, name) ==
  /\ rootDb /\ metaDb
  /\ c \notin DOMAIN calls
  /\ name # <<>>
  /\ IF Truthy(Get(kv[META_DB], name))
     THEN /\ StartCall(c, [op |-> "deleteDatabase", name |-> name,
                           key |-> <<>>, value |-> Undefined, pc |-> "clear"])
          /\ UNCHANGED resp
     ELSE resp' = Status(500) /\ UNCHANGED calls
  /\ UNCHANGED <<rootDb, metaDb, dbCache, kv>>
  /\ UNCHANGED CallVars

\* deleteDatabase: dbCache.get(name), and if there is a handle
\* `await db.clear()` and dbCache.delete(name)
DeleteDbClear(c) ==
  /\ rootDb
  /\ Suspended(c, "deleteDatabase", "clear")
  /\ IF calls[c].name \in dbCache
     THEN /\ kv' = [kv EXCEPT ![calls[c].name] = EmptyKeyspace]
          /\ dbCache' = dbCache \ {calls[c].name}
     ELSE UNCHANGED <<kv, dbCache>>
  /\ MoveCall(c, "remove")
  /\ UNCHANGED <<rootDb, metaDb, resp>>
  /\ UNCHANGED CallVars

\* deleteDatabase: `await metaDb.remove(name)`; then the handler's
\* untrackDatabase(name), which removes the same record, and its reply
DeleteDbRemove(c) ==
  /\ rootDb
  /\ Suspended(c, "deleteDatabase", "remove")
  /\ Commit(untrackDatabase(remove(Cur, META_DB, calls[c].name),
                            calls[c].name).st)
  /\ resp' = Status(200)
  /\ EndCall(c)
  /\ UNCHANGED CallVars

\* POST /api/dbs/:db/docs, createDocument up to `await db.get(key)`
CreateDocStart(c, dbName, key, value) ==
  /\ rootDb
  /\ c \notin DOMAIN calls
  /\ dbName # <<>> /\ key # <<>> /\ value # Undefined
  /\ dbCache' = dbCache \cup {dbName}
  /\ IF Truthy(Get(kv[dbName], key))
     THEN resp' = Status(409) /\ UNCHANGED calls
     ELSE /\ StartCall(c, [op |-> "createDocument", name |-> dbName,
                           key |-> key, value |-> value, pc |-> "put"])
          /\ UNCHANGED resp
  /\ UNCHANGED <<rootDb, metaDb, kv>>
  /\ UNCHANGED CallVars

\* createDocument: `await db.put(key, value)`, then the reply
CreateDocPut(c) ==
  /\ rootDb
  /\ Suspended(c, "createDocument", "put")
  /\ Commit(put(Cur, calls[c].name, calls[c].key, calls[c].value))
  /\ resp' = Status(201)
  /\ EndCall(c)
  /\ UNCHANGED CallVars

\* POST /api/dbs/:db, createDatabase up to `await metaDb.get(name)`
CreateDbStart(c, name) ==
  /\ rootDb /\ metaDb
  /\ c \notin DOMAIN calls
  /\ ~IsBlank(name) /\ ValidDbName(name)
  /\ IF Truthy(Get(kv[META_DB], name))
     THEN resp' = Status(500) /\ UNCHANGED calls
     ELSE /\ StartCall(c, [op |-> "createDatabase", name |-> name,
                           key |-> <<>>, value |-> Undefined, pc |-> "put"])
          /\ UNCHANGED resp
  /\ UNCHANGED <<rootDb, metaDb, dbCache, kv>>
  /\ UNCHANGED CallVars

\* createDatabase: getDb(name) and `await metaDb.put(name, ...)`; then the
\* handler's trackDatabase(name), which finds the record, and its reply
CreateDbPut(c) ==
  /\ rootDb
  /\ Suspended(c, "createDatabase", "put")
  /\ Commit(trackDatabase(put(getDb(Cur, calls[c].name).st, META_DB,
                              calls[c].name, MetaRecord),
                          calls[c].name).st)
  /\ resp' = Status(201)
  /\ EndCall(c)
  /\ UNCHANGED CallVars

\* PUT /api/dbs/:db/docs/:id, updateDocument up to `await db.get(key)`
UpdateDocStart(c, dbName, key, value) ==
  /\ rootDb
  /\ c \notin DOMAIN calls
  /\ dbName # <<>> /\ key # <<>> /\ value # Undefined
  /\ dbCache' = dbCache \cup {dbName}
  /\ IF Truthy(Get(kv[dbName], key))
     THEN /\ StartCall(c, [op |-> "updateDocument", name |-> dbName,
                           key |-> key, value |-> value, pc |-> "put"])
          /\ UNCHANGED resp
     ELSE resp' = Status(404) /\ UNCHANGED calls
  /\ UNCHANGED <<rootDb, metaDb, kv>>
  /\ UNCHANGED CallVars

\* updateDocument: `await db.put(key, value)`, then the reply
UpdateDocPut(c) ==
  /\ rootDb
  /\ Suspended(c, "updateDocument", "put")
  /\ Commit(put(Cur, calls[c].name, calls[c].key, calls[c].value))
  /\ resp' = Status(200)
  /\ EndCall(c)
  /\ UNCHANGED CallVars

\* DELETE /api/dbs/:db/docs/:id, deleteDocument up to `await db.get(key)`
DeleteDocStart(c, dbName, key) ==
  /\ rootDb
  /\ c \notin DOMAIN calls
  /\ dbName # <<>> /\ key # <<>>
  /\ dbCache' = dbCache \cup {dbName}
  /\ IF Truthy(Get(kv[dbName], key))
     THEN /\ StartCall(c, [op |-> "deleteDocument", name |-> dbName,
                           key |-> key, value |-> Undefined, pc |-> "remove"])
          /\ UNCHANGED resp
     ELSE resp' = Status(404) /\ UNCHANGED calls
  /\ UNCHANGED <<rootDb, metaDb, kv>>
  /\ UNCHANGED CallVars

\* deleteDocument: `await db.remove(key)`, then the reply
DeleteDocRemove(c) ==
  /\ rootDb
  /\ Suspended(c, "deleteDocument", "remove")
  /\ Commit(remove(Cur, calls[c].name, calls[c].key))
  /\ resp' = Status(200)
  /\ EndCall(c)
  /\ UNCHANGED CallVars

\* the process dies: the handles and the suspended handlers are gone, the
\* keyspaces stay as the completed writes left them
Crash ==
  /\ rootDb
  /\ Commit(shutdownLmdb(Cur))
  /\ resp' = Status(0)
  /\ calls' = <<>>
  /\ UNCHANGED CallVars

\* a handler that was suspended when shutdownLmdb closed the engine resumes
\* before process.exit: its storage call fails and its catch answers 500
ResumeClosed(c) ==
  /\ ~rootDb
  /\ c \in DOMAIN calls
  /\ resp' = Status(500)
  /\ EndCall(c)
  /\ UNCHANGED <<rootDb, metaDb, dbCache, kv>>
  /\ UNCHANGED CallVars

\* process.exit(0) after `await shutdownLmdb()`: the suspended handlers are
\* dropped with the process
Exit ==
  /\ ~rootDb
  /\ calls # <<>>
  /\ calls' = <<>>
  /\ resp' = Status(0)
  /\ UNCHANGED <<rootDb, metaDb, dbCache, kv>>
  /\ UNCHANGED CallVars

\* startServer of the next process: initializeLmdb, then serve()
StartServer ==
  /\ ~rootDb
  /\ calls = <<>>
  /\ Commit(initializeLmdb(Cur))
  /\ resp' = Status(0)
  /\ UNCHANGED calls
  /\ UNCHANGED CallVars

----------------------------------------------------------------------------
(* Requests through the application: the middleware, then the route        *)

\* POST /api/auth: the id and the key are fresh random values
ReqGenerateKey(id, rawKey, created) ==
  LET r == AuthPost(Cur, id, rawKey, created)
  IN /\ rootDb
     /\ id \notin DOMAIN issued
     /\ \A i \in DOMAIN issued : issued[i] # rawKey
     /\ Commit(r.st)
     /\ resp' = r.resp
     /\ issued' = [i \in DOMAIN issued \cup {id} |->
                     IF i = id THEN rawKey ELSE issued[i]]
     /\ handled' = "authApi"
     /\ UNCHANGED <<lastQuery, revoked, buckets, calls>>
     /\ UNCHANGED adminVars

\* GET /api/auth
ReqListKeys ==
  LET r == AuthGet(Cur)
  IN /\ rootDb
     /\ Commit(r.st)
     /\ resp' = r.resp
     /\ handled' = "authApi"
     /\ UNCHANGED <<lastQuery, issued, revoked, buckets, calls>>
     /\ UNCHANGED adminVars

\* DELETE /api/auth/:id; revoked records the issued ids whose revocation
\* was answered 200
ReqRevokeKey(id) ==
  LET r == AuthDelete(Cur, id)
  IN /\ rootDb
     /\ Commit(r.st)
     /\ resp' = r.resp
     /\ revoked' = IF r.resp.status = 200 /\ id \in DOMAIN issued
                    THEN revoked \cup {id} ELSE revoked
     /\ handled' = "authApi"
     /\ UNCHANGED <<lastQuery, issued, buckets, calls>>
     /\ UNCHANGED adminVars

\* POST /api/auth/validate
ReqValidateKey(key) ==
  LET r == AuthValidate(Cur, key)
  IN /\ rootDb
     /\ Commit(r.st)
     /\ resp' = r.resp
     /\ handled' = "authApi"
     /\ UNCHANGED <<lastQuery, issued, revoked, buckets, calls>>
     /\ UNCHANGED adminVars

\* a data API request: app.use('/api/*', authMiddleware), then the handler
\* whose reply is r
ViaAuth(path, header, r) ==
  LET m == authMiddleware(Cur, path, header)
  IN IF m = 0 THEN [st |-> r.st, resp |-> r.resp, handled |-> "dataApi"]
     ELSE [st |-> Cur, resp |-> Status(m), handled |-> "none"]

\* POST /api/dbs/:db/docs
ReqCreateDoc(header, dbName, key, value) ==
  LET r == ViaAuth(DataPath, header, PostDoc(Cur, dbName, key, value))
  IN /\ rootDb
     /\ Commit(r.st)
     /\ resp' = r.resp
     /\ handled' = r.handled
     /\ UNCHANGED <<lastQuery, issued, revoked, buckets, calls>>
     /\ UNCHANGED adminVars

\* GET /api/dbs/:db/docs/:id
ReqGetDoc(header, dbName, key) ==
  LET r == ViaAuth(DataPath, header, GetDoc(Cur, dbName, key))
  IN /\ rootDb
     /\ Commit(r.st)
     /\ resp' = r.resp
     /\ handled' = r.handled
     /\ UNCHANGED <<lastQuery, issued, revoked, buckets, calls>>
     /\ UNCHANGED adminVars

\* DELETE /api/dbs/:db/docs/:id
ReqDeleteDoc(header, dbName, key) ==
  LET r == ViaAuth(DataPath, header, DeleteDoc(Cur, dbName, key))
  IN /\ rootDb
     /\ Commit(r.st)
     /\ resp' = r.resp
     /\ handled' = r.handled
     /\ UNCHANGED <<lastQuery, issued, revoked, buckets, calls>>
     /\ UNCHANGED adminVars

\* POST /api/storage/:bucket
ReqCreateBucket(header, bucket) ==
  LET m == authMiddleware(Cur, StoragePath, header)
      r == StoragePostBucket(buckets, bucket)
  IN /\ rootDb
     /\ IF m = 0
        THEN buckets' = r.dirs /\ resp' = r.resp /\ handled' = "storageApi"
        ELSE buckets' = buckets /\ resp' = Status(m) /\ handled' = "none"
     /\ Commit(Cur)
     /\ UNCHANGED <<lastQuery, issued, revoked, calls>>
     /\ UNCHANGED adminVars

\* GET /api/storage
ReqListBuckets(header) ==
  LET m == authMiddleware(Cur, StorageRoot, header)
      r == StorageGetBuckets(buckets)
  IN /\ rootDb
     /\ IF m = 0
        THEN resp' = r.resp /\ handled' = "storageApi"
        ELSE resp' = Status(m) /\ handled' = "none"
     /\ Commit(Cur)
     /\ UNCHANGED <<lastQuery, issued, revoked, buckets, calls>>
     /\ UNCHANGED adminVars

----------------------------------------------------------------------------
(* POST /api/login step by step                                            *)

LoginReply(status) == WithBody(status, [ok |-> status = 200, error |-> "error"])

\* the handler up to `await c.req.json()`: body is <<>> when the request
\* body is no JSON, and <<[email, password]>> otherwise
LoginStart(c, xff, body) ==
  /\ rootDb
  /\ c \notin DOMAIN calls
  /\ IF checkRateLimit(loginAttempts, getClientIp(xff), now)
     THEN resp' = LoginReply(429) /\ UNCHANGED calls
     ELSE IF ~isAdminAuthConfigured(adminEnv)
     THEN resp' = LoginReply(500) /\ UNCHANGED calls
     ELSE /\ StartCall(c, [op |-> "login", ip |-> getClientIp(xff),
                           body |-> body, pc |-> "json"])
          /\ UNCHANGED resp
  /\ handled' = "adminAuthRoutes"
  /\ Commit(Cur)
  /\ UNCHANGED <<lastQuery, issued, revoked, buckets>>
  /\ UNCHANGED adminVars

\* from the parsed body to `await bcrypt.compare(...)`
LoginBody(c) ==
  /\ rootDb
  /\ Suspended(c, "login", "json")
  /\ IF calls[c].body = <<>>
     THEN resp' = LoginReply(400) /\ EndCall(c) /\ UNCHANGED loginAttempts
     ELSE IF calls[c].body[1].email = Unset \/ calls[c].body[1].password = Unset
     THEN resp' = LoginReply(400) /\ EndCall(c) /\ UNCHANGED loginAttempts
     ELSE IF calls[c].body[1].email # adminEnv.adminEmail
     THEN /\ loginAttempts' = recordLoginAttempt(loginAttempts, calls[c].ip, now)
          /\ resp' = LoginReply(401)
          /\ EndCall(c)
     ELSE MoveCall(c, "compare") /\ UNCHANGED <<resp, loginAttempts>>
  /\ Commit(Cur)
  /\ UNCHANGED <<lastQuery, issued, revoked, handled, buckets>>
  /\ UNCHANGED <<adminEnv, now, adminUser>>

\* from the result of bcrypt.compare to the reply
LoginCompare(c) ==
  /\ rootDb
  /\ Suspended(c, "login", "compare")
  /\ IF ~bcryptCompare(calls[c].body[1].password, adminEnv.adminPassword)
     THEN /\ loginAttempts' = recordLoginAttempt(loginAttempts, calls[c].ip, now)
          /\ resp' = LoginReply(401)
     ELSE /\ resp' = IF adminEnv.jwtSecret = Unset
                     THEN LoginReply(500)
                     ELSE LoginReply(200)
          /\ UNCHANGED loginAttempts
  /\ EndCall(c)
  /\ Commit(Cur)
  /\ UNCHANGED <<lastQuery, issued, revoked, handled, buckets>>
  /\ UNCHANGED <<adminEnv, now, adminUser>>

\* the setInterval callback runs
Cleanup ==
  /\ loginAttempts' = cleanup(loginAttempts, now)
  /\ Commit(Cur)
  /\ UNCHANGED <<resp, lastQuery, issued, revoked, handled, buckets, calls>>
  /\ UNCHANGED <<adminEnv, now, adminUser>>

\* the clock advances by half a rate limit window
HalfWindow == RATE_LIMIT_WINDOW_MS \div 2
MaxWindowTicks == 3
WindowTick ==
  /\ now < MaxWindowTicks * HalfWindow
  /\ now' = now + HalfWindow
  /\ Commit(Cur)
  /\ UNCHANGED <<resp, lastQuery, issued, revoked, handled, buckets, calls>>
  /\ UNCHANGED <<adminEnv, loginAttempts, adminUser>>

----------------------------------------------------------------------------
(* Admin requests: the admin gate in front of /api/admin/*                 *)

\* the clock advances by half a token lifetime
HalfDay == TOKEN_LIFETIME_MS \div 2
MaxDayTicks == 3
DayTick ==
  /\ now < MaxDayTicks * HalfDay
  /\ now' = now + HalfDay
  /\ Commit(Cur)
  /\ UNCHANGED <<resp, lastQuery, issued, revoked, handled, buckets, calls>>
  /\ UNCHANGED <<adminEnv, loginAttempts, adminUser>>

\* the process is started with another environment
Reconfigure(env) ==
  /\ adminEnv' = env
  /\ Commit(Cur)
  /\ UNCHANGED <<resp, lastQuery, issued, revoked, handled, buckets, calls>>
  /\ UNCHANGED <<now, loginAttempts, adminUser>>

\* a request to /api/admin/*
ReqAdmin(header) ==
  LET m == adminAuthMiddleware(adminEnv, header, now)
  IN /\ rootDb
     /\ resp' = IF m.next
                THEN Status(200)
                ELSE WithBody(m.status, [ok |-> FALSE, error |-> "error"])
     /\ handled' = IF m.next THEN "adminRoutes" ELSE "adminAuthMiddleware"
     /\ adminUser' = m.adminUser
     /\ Commit(Cur)
     /\ UNCHANGED <<lastQuery, issued, revoked, buckets, calls>>
     /\ UNCHANGED <<adminEnv, now, loginAttempts>>

----------------------------------------------------------------------------
(* SpecDoc: the document operations on three cells of two namespaces,      *)
(* with every value                                                        *)

DocCells == {<<StrA, StrA>>, <<StrA, StrB>>, <<StrB, StrA>>}
DocDbs == {c[1] : c \in DocCells}

NextDoc ==
  \/ \E n \in DocDbs : DataCreateDb(n)
  \/ \E n \in DocDbs : DataDeleteDb(n)
  \/ \E c \in DocCells, v \in Values \cup {Undefined} : DataCreateDoc(c[1], c[2], v)
  \/ \E c \in DocCells : DataGetDoc(c[1], c[2])
  \/ \E c \in DocCells, v \in Values \cup {Undefined} : DataUpdateDoc(c[1], c[2], v)
  \/ \E c \in DocCells : DataDeleteDoc(c[1], c[2])
  \/ \E c \in DocCells, v \in Values : AdminCreateDoc(c[1], c[2], v)
  \/ Shutdown
  \/ Initialize

SpecDoc == Init /\ [][NextDoc]_vars

----------------------------------------------------------------------------
(* SpecNs: the namespace registry, with the reserved names as inputs       *)

NsNames == {StrA, StrB, META_DB, SYSTEM_DB}
NsValue == "1"

NextNs ==
  \/ \E n \in NsNames : DataCreateDb(n)
  \/ \E n \in NsNames : DataDeleteDb(n)
  \/ \E n \in NsNames : AdminCreateDb(n)
  \/ \E n \in NsNames : AdminRemoveDb(n)
  \/ DataListDbs
  \/ \E n \in {StrA, StrB} : DataCreateDoc(n, StrA, NsValue)
  \/ \E n \in {StrA, StrB} : DataGetDoc(n, StrA)
  \/ \E n \in {StrA, StrB} : AdminUpdateDoc(n, StrA, NsValue)
  \/ \E n \in {StrA, StrB} : AdminRemoveDoc(n, StrA)
  \/ Shutdown
  \/ Initialize

SpecNs == Init /\ [][NextNs]_vars

----------------------------------------------------------------------------
(* SpecList: listDocuments over one namespace with five keys               *)

MaxLimit == 3

ListDb == StrA
ListKeys == {StrA, StrAA, StrAB, StrB, StrAMax}
ListValues == {"1", "null"}
\* the options every reachable state is examined with
Bounds == {NoStr, StrA, StrAB, StrB}
Prefixes == {NoStr, <<>>, StrA, StrAA, StrB, StrAMax}
\* the requests that are issued
AskedBounds == {NoStr, StrAB}
AskedPrefixes == {NoStr, <<>>, StrA}
AskedLimits == {<<>>, <<0>>, <<2>>}

NextList ==
  \/ \E k \in ListKeys, v \in ListValues : DataCreateDoc(ListDb, k, v)
  \/ \E k \in ListKeys : DataDeleteDoc(ListDb, k)
  \/ \E s \in AskedBounds, e \in AskedBounds, l \in AskedLimits, p \in AskedPrefixes :
       DataListDocs(ListDb, s, e, l, p)

SpecList == Init /\ [][NextList]_vars

----------------------------------------------------------------------------
(* SpecKey: the credential store, the API key middleware and the routes    *)
(* behind it                                                               *)

\* the headers a request may carry
Headers == {NoHeader, Bearer("hm_1"), Bearer(EnvKey), Bearer(NoKey), Bare("hm_2")}
\* the cell of a user namespace the data requests work on
KeyDb == StrA
KeyDoc == StrA
KeyBucket == StrB

NextKey ==
  \/ \E id \in Uuids, k \in RawKeys, t \in Instants : ReqGenerateKey(id, k, t)
  \/ ReqListKeys
  \/ \E id \in Uuids : ReqRevokeKey(id)
  \/ \E t \in Tokens : ReqValidateKey(t)
  \/ \E h \in Headers : ReqCreateDoc(h, KeyDb, KeyDoc, NsValue)
  \/ \E h \in Headers : ReqCreateDoc(h, SYSTEM_DB, CredentialKey(Uuid2), StringValue("hm_1"))
  \/ \E h \in Headers, id \in Uuids : ReqDeleteDoc(h, SYSTEM_DB, CredentialKey(id))
  \/ \E h \in Headers : ReqCreateBucket(h, KeyBucket)
  \/ \E h \in Headers : ReqListBuckets(h)
  \/ Shutdown
  \/ Initialize

SpecKey == Init /\ [][NextKey]_vars

----------------------------------------------------------------------------
(* SpecCrash: namespace deletion step by step, with crashes                *)

CrashNames == {StrA, StrB}

NextCrash ==
  \/ \E n \in CrashNames : AdminCreateDoc(n, StrA, NsValue)
  \/ \E n \in CrashNames : DataGetDoc(n, StrA)
  \/ \E c \in CallIds, n \in CrashNames : DeleteDbStart(c, n)
  \/ \E c \in CallIds : DeleteDbClear(c)
  \/ \E c \in CallIds : DeleteDbRemove(c)
  \/ Crash
  \/ Initialize

SpecCrash == Init /\ [][NextCrash]_vars

----------------------------------------------------------------------------
(* SpecRace: create requests whose handlers interleave at their awaits     *)

RaceValues == {"1", "2"}

NextRace ==
  \/ \E c \in CallIds, v \in RaceValues : CreateDocStart(c, StrA, StrA, v)
  \/ \E c \in CallIds : CreateDocPut(c)
  \/ \E c \in CallIds, n \in {StrA, StrB} : CreateDbStart(c, n)
  \/ \E c \in CallIds : CreateDbPut(c)
  \/ DataDeleteDoc(StrA, StrA)
  \/ \E n \in {StrA, StrB} : DataDeleteDb(n)

SpecRace == Init /\ [][NextRace]_vars

----------------------------------------------------------------------------
(* SpecUpdate: update and delete requests on one document whose handlers   *)
(* interleave at their awaits                                              *)

NextUpdate ==
  \/ \E v \in RaceValues : DataCreateDoc(StrA, StrA, v)
  \/ DataGetDoc(StrA, StrA)
  \/ \E c \in CallIds, v \in RaceValues : UpdateDocStart(c, StrA, StrA, v)
  \/ \E c \in CallIds : UpdateDocPut(c)
  \/ \E c \in CallIds : DeleteDocStart(c, StrA, StrA)
  \/ \E c \in CallIds : DeleteDocRemove(c)

SpecUpdate == Init /\ [][NextUpdate]_vars

----------------------------------------------------------------------------
(* SpecEnvelope: requests whose response body is examined                  *)

NextEnvelope ==
  \/ \E id \in Uuids, k \in RawKeys, t \in Instants : ReqGenerateKey(id, k, t)
  \/ ReqListKeys
  \/ \E t \in Tokens : ReqValidateKey(t)
  \/ \E id \in Uuids \cup {<<>>} : EnvRevokeKey(id)
  \/ \E k \in {StrA, <<>>}, v \in RaceValues : EnvCreateDoc(StrA, k, v)
  \/ EnvNotFound
  \/ EnvAdminStats

SpecEnvelope == Init /\ [][NextEnvelope]_vars

----------------------------------------------------------------------------
(* SpecShutdown: SIGINT / SIGTERM while request handlers are suspended     *)

NextShutdown ==
  \/ \E c \in CallIds, v \in RaceValues : CreateDocStart(c, StrA, StrA, v)
  \/ \E c \in CallIds : CreateDocPut(c)
  \/ \E c \in CallIds : DeleteDocStart(c, StrA, StrA)
  \/ \E c \in CallIds : DeleteDocRemove(c)
  \/ Shutdown
  \/ \E c \in CallIds : ResumeClosed(c)
  \/ Exit
  \/ StartServer

SpecShutdown == Init /\ [][NextShutdown]_vars

----------------------------------------------------------------------------
(* SpecStorage: buckets and files                                          *)

\* "a_b" and "a.b"
StrAUnderB == <<97, 95, 98>>
StrADotB == <<97, 46, 98>>
BucketNames == {StrA, StrAUnderB, StrADotB}
FileKeys == {StrA, StrB}
StorageHeader == Bearer(EnvKey)

NextStorage ==
  \/ \E b \in BucketNames : ReqCreateBucket(StorageHeader, b)
  \/ \E b \in BucketNames : ReqDeleteBucket(StorageHeader, b)
  \/ \E b \in BucketNames, k \in FileKeys : ReqPutFile(StorageHeader, b, k)
  \/ \E b \in BucketNames, k \in FileKeys : ReqDeleteFile(StorageHeader, b, k)
  \/ ReqListBuckets(StorageHeader)

SpecStorage == Init /\ [][NextStorage]_vars

----------------------------------------------------------------------------
(* SpecAdmin: admin requests with every configuration, header form and     *)
(* token                                                                   *)

AdminEnvs ==
  [adminEmail : {ADMIN_EMAIL, Unset}, adminPassword : {PasswordHash, Unset},
   jwtSecret : {JWT_SECRET, OtherSecret, Unset}]
IssueTimes == {i * HalfDay : i \in 0..MaxDayTicks}
AdminTokens ==
  {Garbage} \cup
  {Sign(ADMIN_EMAIL, role, secret, iat, life) :
     role \in {"admin", "user"}, secret \in {JWT_SECRET, OtherSecret},
     iat \in IssueTimes, life \in {TOKEN_LIFETIME_MS, HalfDay}}
\* the header split at ' ': absent, 'Bearer', 'Bearer x y', and a scheme
\* followed by a token
AdminHeaders ==
  {<<>>, <<"Bearer">>, <<"Bearer", "x", "y">>} \cup
  {<<scheme, t>> : scheme \in {"Bearer", "bearer", "Basic"}, t \in AdminTokens}

NextAdmin ==
  \/ DayTick
  \/ \E env \in AdminEnvs : Reconfigure(env)
  \/ \E h \in AdminHeaders : ReqAdmin(h)

SpecAdmin == Init /\ [][NextAdmin]_vars

----------------------------------------------------------------------------
(* SpecLogin: login requests handled one after the other                   *)

Xffs == {<<>>, <<"ip1">>, <<"ip1", "ip2">>}
LoginBodies ==
  {<<>>,
   <<[email |-> ADMIN_EMAIL, password |-> Unset]>>,
   <<[email |-> "other@example.com", password |-> PASSWORD]>>,
   <<[email |-> ADMIN_EMAIL, password |-> "guess"]>>,
   <<[email |-> ADMIN_EMAIL, password |-> PASSWORD]>>}

NextLogin ==
  \/ \E xff \in Xffs, body \in LoginBodies : LoginStart(1, xff, body)
  \/ LoginBody(1)
  \/ LoginCompare(1)
  \/ Cleanup
  \/ WindowTick

SpecLogin == Init /\ [][NextLogin]_vars

----------------------------------------------------------------------------
(* SpecLoginRace: login requests of one client whose handlers interleave   *)
(* at their awaits                                                         *)

RaceBodies ==
  {<<[email |-> "other@example.com", password |-> PASSWORD]>>,
   <<[email |-> ADMIN_EMAIL, password |-> "guess"]>>}

NextLoginRace ==
  \/ \E c \in CallIds, body \in RaceBodies : LoginStart(c, <<>>, body)
  \/ \E c \in CallIds : LoginBody(c)
  \/ \E c \in CallIds : LoginCompare(c)
  \/ WindowTick

SpecLoginRace == Init /\ [][NextLoginRace]_vars

----------------------------------------------------------------------------
(* SpecValid: create requests with well-formed and malformed names and keys *)

\* "a b"
StrASpaceB == <<97, 32, 98>>
\* a name one character longer than the schema allows
LongName == [i \in 1..(MAX_NAME_LENGTH + 1) |-> 97]
\* "a\0"
StrANul == <<97, 0>>
ValidNames == {StrA, <<>>, StrASpaceB, LongName}
ValidKeys == {StrA, StrB, <<>>, StrANul}

NextValid ==
  \/ \E n \in ValidNames : DataCreateDb(n)
  \/ \E n \in ValidNames : AdminCreateDb(n)
  \/ \E k \in ValidKeys : DataCreateDoc(StrA, k, NsValue)
  \/ \E k \in ValidKeys : DataGetDoc(StrA, k)
  \/ Shutdown
  \/ Initialize

SpecValid == Init /\ [][NextValid]_vars

----------------------------------------------------------------------------
(* Properties of the document operations (SpecDoc)                         *)

Stored(st, dbName, key) == Get(st.kv[dbName], key)

\* C1: once a key holds a value (a create succeeded and no delete followed),
\* a create-document request on that key is answered 409 and the stored
\* value stays what it was.
C1_Uniqueness ==
  [][\A c \in DocCells, v2 \in Values :
       (Stored(Cur, c[1], c[2]) # Undefined /\ DataCreateDoc(c[1], c[2], v2))
         => /\ resp'.status = 409
            /\ getDocument(Cur', c[1], c[2]).value = Stored(Cur, c[1], c[2])]_vars

\* C2: an update of a key that holds no value is answered 404 and changes
\* nothing; an update of a key that holds any value is answered 200 and the
\* next getDocument returns the new value.
C2_UpdateRequiresExistence ==
  [][\A c \in DocCells, v \in Values :
       DataUpdateDoc(c[1], c[2], v)
         => IF Stored(Cur, c[1], c[2]) = Undefined
            THEN resp'.status = 404 /\ kv' = kv
            ELSE resp'.status = 200 /\ getDocument(Cur', c[1], c[2]).value = v]_vars

\* C3: a delete of a key is answered 404 exactly when the key holds no value;
\* when it holds any value the delete is answered 200, after which a get is
\* answered 404 and a create with any value is answered 201.
C3_DeleteIsTerminal ==
  [][\A c \in DocCells :
       DataDeleteDoc(c[1], c[2])
         => /\ (resp'.status = 404) <=> (Stored(Cur, c[1], c[2]) = Undefined)
            /\ Stored(Cur, c[1], c[2]) # Undefined
                 => /\ resp'.status = 200
                    /\ GetDoc(Cur', c[1], c[2]).resp.status = 404
                    /\ \A v \in Values :
                         PostDoc(Cur', c[1], c[2], v).resp.status = 201]_vars

\* C4: what getDocument returns for a cell is the value of the last successful
\* create or update of that cell, and not found after a successful delete of
\* the key or of its namespace; no other step changes it.
C4_RoundTrip ==
  [][\A c \in DocCells :
       LET old == Stored(Cur, c[1], c[2])
           new == Stored(Cur', c[1], c[2])
           created(v) == /\ DataCreateDoc(c[1], c[2], v) \/ AdminCreateDoc(c[1], c[2], v)
                         /\ resp'.status = 201
           updated(v) == DataUpdateDoc(c[1], c[2], v) /\ resp'.status = 200
           deleted == DataDeleteDoc(c[1], c[2]) /\ resp'.status = 200
           dropped == DataDeleteDb(c[1]) /\ resp'.status = 200
       IN /\ \A v \in Values : created(v) \/ updated(v) => new = v
          /\ deleted \/ dropped => new = Undefined
          /\ new # old => \/ \E v \in Values : created(v) \/ updated(v)
                          \/ deleted
                          \/ dropped]_vars

\* C7: every stored document belongs to a namespace that has a metadata
\* record, and a create-document request of the data API on a namespace
\* without a metadata record stores nothing.
C7_DocsOnlyInCreatedNamespaces ==
  [][/\ \A c \in DocCells :
          Stored(Cur', c[1], c[2]) # Undefined => Stored(Cur', META_DB, c[1]) # Undefined
     /\ \A c \in DocCells, v \in Values :
          (Stored(Cur, META_DB, c[1]) = Undefined /\ DataCreateDoc(c[1], c[2], v))
            => kv' = kv]_vars

----------------------------------------------------------------------------
(* Properties of the namespace registry (SpecNs)                           *)

UserNames == {StrA, StrB}
ReservedNames == {META_DB, SYSTEM_DB}

\* the namespace holds no document that getDocument or listDocuments returns
Unreachable(st, n) ==
  /\ getDocument(st, n, StrA).value = Undefined
  /\ listDocuments(st, n, NoQuery).docs = <<>>

\* C5: after a namespace delete that is answered 200, listDatabases does not
\* contain the namespace and neither getDocument nor listDocuments returns a
\* document of it, also after the namespace is created again.
C5_NamespaceCascade ==
  [][\A n \in UserNames :
       ((DataDeleteDb(n) \/ AdminRemoveDb(n)) /\ resp'.status = 200)
         => /\ \A i \in DOMAIN listDatabases(Cur') : listDatabases(Cur')[i] # n
            /\ Unreachable(Cur', n)
            /\ PostDb(Cur', n).resp.status = 201
            /\ Unreachable(PostDb(Cur', n).st, n)]_vars

\* C6: a create or delete of a namespace named '__meta' or '__system', through
\* the data API or the admin API, is answered with an error and changes
\* nothing, and listDatabases never returns such a name.
C6_ReservedNames ==
  [][/\ \A n \in ReservedNames :
          (DataCreateDb(n) \/ AdminCreateDb(n) \/ DataDeleteDb(n) \/ AdminRemoveDb(n))
            => resp'.status >= 400 /\ kv' = kv
     /\ \A i \in DOMAIN listDatabases(Cur') :
          listDatabases(Cur')[i] \notin ReservedNames]_vars

\* C8: a namespace create succeeds iff the name has no metadata record, a
\* namespace delete succeeds iff it has one, and listDatabases returns, in
\* ascending order, exactly the names that have a metadata record.
C8_RegistryIsSet ==
  [][/\ \A n \in NsNames :
          (DataCreateDb(n) \/ AdminCreateDb(n))
            => ((resp'.status = 201) <=> (Stored(Cur, META_DB, n) = Undefined))
     /\ \A n \in NsNames :
          (DataDeleteDb(n) \/ AdminRemoveDb(n))
            => ((resp'.status = 200) <=> (Stored(Cur, META_DB, n) # Undefined))
     /\ listDatabases(Cur')
          = SortedSeq({n \in NsNames : Stored(Cur', META_DB, n) # Undefined})]_vars

----------------------------------------------------------------------------
(* Properties of listDocuments (SpecList)                                  *)

StartsWith(k, p) == Len(k) >= Len(p) /\ SubSeq(k, 1, Len(p)) = p

\* s <= k < e, a bound that is not given being no bound
Within(k, s, e) ==
  /\ (s = NoStr \/ k = s \/ StrLT(s, k))
  /\ (e = NoStr \/ StrLT(k, e))

\* docs are the first min(L, n) of the n documents of keyspace ks whose key is
\* in matching, in ascending key order, each with its stored value
IsFirstOf(docs, ks, matching, L) ==
  /\ Len(docs) = Min(L, Cardinality(matching))
  /\ \A i \in DOMAIN docs :
       /\ docs[i][1] \in matching
       /\ docs[i][2] = ks[docs[i][1]]
  /\ \A i, j \in DOMAIN docs : i < j => StrLT(docs[i][1], docs[j][1])
  /\ \A k \in matching :
       (\A i \in DOMAIN docs : docs[i][1] # k)
         => \A i \in DOMAIN docs : StrLT(docs[i][1], k)

\* the limit options a request may carry: none, or 1..MaxLimit
LimitOptions == {<<>>} \cup {<<n>> : n \in 1..MaxLimit}
LimitAsked(l) == IF l = <<>> THEN DEFAULT_LIMIT ELSE l[1]

\* the non-empty prefixes whose last code unit is below the maximum
PlainPrefixes ==
  {p \in Prefixes : p # NoStr /\ p # <<>> /\ p[Len(p)] < CodeUnitModulus - 1}
GivenPrefixes == {p \in Prefixes : p # NoStr /\ p # <<>>}

Listed(options) == listDocuments(Cur, ListDb, options).docs
KeysOf(ks, p) == {k \in DOMAIN ks : StartsWith(k, p)}
KeysWithin(ks, s, e) == {k \in DOMAIN ks : Within(k, s, e)}

\* C9: for every non-empty prefix p whose last code unit is below the maximum
\* and every limit L, listDocuments with prefix p returns the first min(L, n)
\* of the n documents whose key begins with p, in ascending key order, and no
\* other document; so does the response to a list request with such a prefix.
C9_PrefixFilter ==
  /\ \A p \in PlainPrefixes, l \in LimitOptions :
       IsFirstOf(Listed(Options(NoStr, NoStr, l, p)), kv[ListDb],
                 KeysOf(kv[ListDb], p), LimitAsked(l))
  /\ (lastQuery.prefix \in PlainPrefixes /\ resp.status = 200)
       => IsFirstOf(resp.docs, kv[ListDb], KeysOf(kv[ListDb], lastQuery.prefix),
                    LimitAsked(lastQuery.limit))

\* a list request with prefix "a" and no limit returned the four documents
\* whose key begins with "a" and left out the stored document "b"
C9_Witness ==
  /\ lastQuery.prefix = StrA
  /\ lastQuery.limit = <<>>
  /\ resp.status = 200
  /\ Len(resp.docs) = 4
  /\ StrB \in DOMAIN kv[ListDb]

\* the range part of C10: without prefix (an empty prefix counting as none),
\* listDocuments returns the first min(L, n) of the n documents with
\* s <= key < e in ascending key order
RangeAndLimit(prefixes) ==
  \A s \in Bounds, e \in Bounds, l \in LimitOptions, p \in prefixes :
    IsFirstOf(Listed(Options(s, e, l, p)), kv[ListDb],
              KeysWithin(kv[ListDb], s, e), LimitAsked(l))

\* with one of the given prefixes, startKey and endKey do not change the result
BoundsIgnored(prefixes) ==
  \A s \in Bounds, e \in Bounds, l \in LimitOptions, p \in prefixes :
    Listed(Options(s, e, l, p)) = Listed(Options(NoStr, NoStr, l, p))

----------------------------------------------------------------------------
(* Properties of the credential store and of the API key middleware        *)
(* (SpecKey)                                                               *)

\* the key issued under id validates, and the middleware lets a data request
\* carrying it as Bearer token through
Validates(st, id) == validateApiKey(st, issued[id]).valid
Admitted(st, id) == authMiddleware(st, DataPath, Bearer(issued[id])) = 0

\* C11: while the process runs, a key issued under id i validates, and is
\* accepted by the middleware on data routes, exactly as long as the
\* revocation of i has not completed.
C11_CredentialLifecycle ==
  rootDb => \A id \in DOMAIN issued :
              /\ Validates(Cur, id) <=> id \notin revoked
              /\ Admitted(Cur, id) <=> id \notin revoked

\* the fields of a stored value of the credential keyspace
FieldsOf(value) ==
  IF JsonParse(value).kind = "record" THEN DOMAIN JsonParse(value).rec ELSE {}
\* the raw keys handed out so far
RawIssued == {issued[id] : id \in DOMAIN issued}

\* C12: every record of the credential keyspace holds exactly id, keyHash,
\* name and created, none of them a raw key, and the keys GET /api/auth
\* returns hold exactly id, name and created.
C12_CredentialSecrecy ==
  /\ \A k \in DOMAIN kv[SYSTEM_DB] :
       /\ FieldsOf(kv[SYSTEM_DB][k]) = {"id", "keyHash", "name", "created"}
       /\ \A f \in FieldsOf(kv[SYSTEM_DB][k]) :
            JsonParse(kv[SYSTEM_DB][k]).rec[f] \notin RawIssued
       /\ \A raw \in RawIssued : kv[SYSTEM_DB][k] # StringValue(raw)
  /\ (handled = "authApi" /\ resp.status = 200 /\ "body" \in DOMAIN resp
        /\ "keys" \in DOMAIN resp.body)
       => \A i \in DOMAIN resp.body.keys :
            DOMAIN resp.body.keys[i] = {"id", "name", "created"}

\* the tokens that are listed in API_KEYS or valid per validateApiKey
Authorized(st, header) ==
  /\ header # NoHeader
  /\ \/ TokenOf(header) \in API_KEYS
     \/ validateApiKey(st, TokenOf(header)).valid

\* C13: a data API or storage API handler runs only for a request whose
\* Authorization header carries a token that is listed in API_KEYS or valid;
\* any other request to these routes is answered 401.
C13_AuthBoundary ==
  [][\A h \in Headers :
       (\/ ReqCreateDoc(h, KeyDb, KeyDoc, NsValue)
        \/ ReqCreateBucket(h, KeyBucket)
        \/ ReqListBuckets(h))
         => \/ Authorized(Cur, h)
            \/ handled' = "none" /\ resp'.status = 401]_vars

\* the credential keyspace without the record of id
WithoutCredential(ks, id) ==
  [k \in DOMAIN ks \ {CredentialKey(id)} |-> ks[k]]
\* a credential record is stored under id
CredentialStored(id) == CredentialKey(id) \in DOMAIN kv[SYSTEM_DB]

\* C19 (as stated): DELETE /api/auth/{id} reports success exactly when a
\* credential with that id is stored, and NotFound otherwise.
C19_AsStated ==
  [][\A id \in Uuids :
       ReqRevokeKey(id) => (resp'.status = 200 <=> CredentialStored(id))]_vars

\* C19 (amended): DELETE /api/auth/{id} with a non-empty id is answered 200
\* whether or not a credential with that id is stored; it removes exactly the
\* record key:<id> from the credential keyspace, changes no other keyspace,
\* and every other issued key that validated before still validates.
C19_RevocationResult ==
  [][\A id \in Uuids :
       ReqRevokeKey(id) =>
         /\ resp'.status = 200
         /\ kv' = [kv EXCEPT ![SYSTEM_DB] = WithoutCredential(@, id)]
         /\ \A j \in DOMAIN issued \ {id} :
              Validates(Cur, j) => validateApiKey(Cur', issued[j]).valid]_vars

\* a revocation has been answered while the key of the other id validates
C19_Witness ==
  /\ handled = "authApi" /\ resp.status = 200 /\ "body" \notin DOMAIN resp
  /\ revoked # {}
  /\ \E j \in DOMAIN issued \ revoked : Validates(Cur, j)

\* C20: validateApiKey examines every stored credential record on every call
\* that returns, whichever record the candidate matches.
C20_NoEarlyExit ==
  rootDb => \A t \in Tokens :
              validateApiKey(Cur, t).err = NoErr
                => validateApiKey(Cur, t).examined
                     = CredentialRange(kv[SYSTEM_DB])

----------------------------------------------------------------------------
(* Properties of failing requests (SpecDoc)                                *)

\* C17: a request to the data API or to the admin database API that is
\* answered with a failure status leaves the metadata records and the
\* documents of every namespace as they were.
C17_NoPartialState ==
  [][resp'.status >= 400 => kv' = kv]_vars

----------------------------------------------------------------------------
(* Properties of request validation (SpecValid)                            *)

\* C15: a create-namespace request, through the data API or the admin API,
\* whose name is empty, longer than 64 characters or holds a character
\* outside [A-Za-z0-9_-] is answered with a failure status and creates no
\* metadata record and opens no keyspace.
C15_NameValidation ==
  [][\A n \in ValidNames :
       (~resourceNameSchema(n) /\ (DataCreateDb(n) \/ AdminCreateDb(n)))
         => resp'.status >= 400 /\ kv' = kv /\ dbCache' = dbCache]_vars

\* C16: a create-document request whose key is empty, longer than 1024
\* characters or holds a NUL is answered 400 and stores nothing.
C16_KeyValidation ==
  [][\A k \in ValidKeys :
       (~documentKeySchema(k) /\ DataCreateDoc(StrA, k, NsValue))
         => resp'.status = 400 /\ kv' = kv]_vars

----------------------------------------------------------------------------
(* Properties of suspended handlers (SpecCrash, SpecRace)                  *)

\* the namespace has a metadata record
IsListed(name) == name \in DOMAIN kv[META_DB]

\* C14: at every point of deleteDatabase, and after a crash at any of them,
\* a namespace is listed (possibly empty) or it is unlisted and holds no
\* document: the metadata record goes only after the documents.
C14_DeleteOrdering ==
  \A n \in CrashNames : IsListed(n) \/ kv[n] = EmptyKeyspace

\* C18: a create call that succeeds writes onto a key, or a name, that is
\* absent at the moment of its write, so that of several calls on the same
\* absent key at most one succeeds and no stored value is replaced.
C18_NoSilentOverwrite ==
  [][\A c \in CallIds :
       /\ CreateDocPut(c) => calls[c].key \notin DOMAIN kv[calls[c].name]
       /\ CreateDbPut(c) => ~IsListed(calls[c].name)]_vars

----------------------------------------------------------------------------
(* Properties of the prefix bound and of pagination (SpecList)             *)

\* C30: for every non-empty prefix p, the last code unit 0xFFFF included, the
\* range [p, PrefixEnd(p)) that listDocuments scans holds every stored key
\* that begins with p.
C30_PrefixEndAbove ==
  \A p \in GivenPrefixes :
    \A k \in KeysOf(kv[ListDb], p) : Within(k, p, PrefixEnd(p))

\* the pages a caller gets who asks with limit L, first without startKey and
\* then with the last key of the page before as startKey, until a page is
\* shorter than L or n calls are made
RECURSIVE Paginate(_, _, _, _)
Paginate(st, startKey, L, n) ==
  LET page == listDocuments(st, ListDb, Options(startKey, NoStr, <<L>>, NoStr)).docs
  IN IF Len(page) < L \/ n <= 1 THEN <<page>>
     ELSE <<page>> \o Paginate(st, page[Len(page)][1], L, n - 1)

\* more calls than a scan that advances by at least one key per page needs
EnoughCalls == Cardinality(DOMAIN kv[ListDb]) + 1
PagesOf(L) == Paginate(Cur, NoStr, L, EnoughCalls)
\* the last page is shorter than L
Finished(pages, L) == Len(pages[Len(pages)]) < L
KeysOn(pages) ==
  {k \in DOMAIN kv[ListDb] :
     \E i \in DOMAIN pages : \E j \in DOMAIN pages[i] : pages[i][j][1] = k}
\* no key of a page is below a key of an earlier page
Ascending(pages) ==
  \A i, j \in DOMAIN pages :
    i < j => \A a \in DOMAIN pages[i], b \in DOMAIN pages[j] :
               pages[i][a][1] = pages[j][b][1] \/ StrLT(pages[i][a][1], pages[j][b][1])
\* every later page begins with the last document of the page before it
Overlapping(pages) ==
  \A i \in DOMAIN pages :
    i > 1 => /\ pages[i] # <<>>
             /\ pages[i][1] = pages[i - 1][Len(pages[i - 1])]

\* C22 (as stated): for every limit L >= 1 the pagination reaches a page
\* shorter than L, and its pages hold every document in ascending key order.
C22_AsStated ==
  \A L \in 1..MaxLimit :
    /\ Finished(PagesOf(L), L)
    /\ KeysOn(PagesOf(L)) = DOMAIN kv[ListDb]
    /\ Ascending(PagesOf(L))

\* C22 (amended): for every limit L >= 2 the pagination reaches a page
\* shorter than L within n + 1 calls for n documents, every later page begins
\* with the last document of the page before it (startKey is inclusive), and
\* the pages hold every document in ascending key order.
C22_Pagination ==
  \A L \in 2..MaxLimit :
    /\ Finished(PagesOf(L), L)
    /\ Overlapping(PagesOf(L))
    /\ KeysOn(PagesOf(L)) = DOMAIN kv[ListDb]
    /\ Ascending(PagesOf(L))

\* a continuation request (startKey "ab", limit 2) was answered, and paging
\* through the stored documents with limit 2 takes at least three pages
C22_Witness ==
  /\ lastQuery = Options(StrAB, NoStr, <<2>>, NoStr)
  /\ resp.status = 200
  /\ Cardinality(DOMAIN kv[ListDb]) >= 3
  /\ Len(PagesOf(2)) >= 3

----------------------------------------------------------------------------
(* Properties of interleaved update and delete (SpecUpdate)                *)

\* C28: an update that reports success writes onto a document that is stored
\* at the moment of its write: it never brings back a document whose delete
\* has returned success in the meantime.
C28_DeleteWins ==
  [][\A c \in CallIds :
       UpdateDocPut(c) => calls[c].key \in DOMAIN kv[calls[c].name]]_vars

----------------------------------------------------------------------------
(* Properties of the internal keyspaces (SpecKey)                          *)

\* C27: a request served by a document handler of the data API, whatever
\* namespace name it carries, leaves the credential keyspace and the
\* metadata keyspace as they were.
C27_InternalKeyspaces ==
  [][\A h \in Headers :
       (\/ ReqCreateDoc(h, KeyDb, KeyDoc, NsValue)
        \/ ReqCreateDoc(h, SYSTEM_DB, CredentialKey(Uuid2), StringValue("hm_1"))
        \/ \E id \in Uuids : ReqDeleteDoc(h, SYSTEM_DB, CredentialKey(id)))
         => /\ kv'[SYSTEM_DB] = kv[SYSTEM_DB]
            /\ kv'[META_DB] = kv[META_DB]]_vars

----------------------------------------------------------------------------
(* Properties of response bodies (SpecEnvelope)                            *)

\* C21: every JSON response carries a boolean field ok, and a failure
\* response (status >= 400) has ok = false and a field error.
C21_ResponseEnvelope ==
  "body" \in DOMAIN resp =>
    /\ "ok" \in DOMAIN resp.body
    /\ resp.body.ok \in BOOLEAN
    /\ resp.status >= 400 => (resp.body.ok = FALSE /\ "error" \in DOMAIN resp.body)

----------------------------------------------------------------------------
(* Properties of the engine handle (SpecShutdown)                          *)

\* C23: the shutdown path closes the engine handle only when no request
\* handler is suspended, and no handler that started before the shutdown
\* resumes on a closed store.
C23_HandleLifetime ==
  [][/\ (rootDb /\ ~rootDb') => calls = <<>>
     /\ \A c \in CallIds : ~ResumeClosed(c)]_vars

----------------------------------------------------------------------------
(* Properties of the storage API (SpecStorage)                             *)

\* the bucket is listed under this name; the file is stored in it
BucketExists(b) == b \in DOMAIN buckets
FileExists(b, k) == BucketExists(b) /\ k \in buckets[b]
\* the buckets without bucket b; bucket b without file k
WithoutBucket(dirs, b) == [d \in DOMAIN dirs \ {b} |-> dirs[d]]
WithoutFile(dirs, b, k) == [dirs EXCEPT ![b] = @ \ {k}]

\* C25: POST /{bucket} answers 201 when no bucket of that name exists and 409,
\* changing nothing, when one does; DELETE /{bucket} answers 404 when none
\* exists and otherwise removes the bucket with its files; PUT /{bucket}/{key}
\* creates a missing bucket; DELETE /{bucket}/{key} answers 404 when the file
\* does not exist and otherwise removes exactly that file.
C25_BucketLifecycle ==
  [][\A b \in BucketNames :
       /\ ReqCreateBucket(StorageHeader, b) =>
            IF BucketExists(b)
            THEN resp'.status = 409 /\ buckets' = buckets
            ELSE resp'.status = 201 /\ b \in DOMAIN buckets'
       /\ ReqDeleteBucket(StorageHeader, b) =>
            IF BucketExists(b)
            THEN resp'.status = 200 /\ buckets' = WithoutBucket(buckets, b)
            ELSE resp'.status = 404 /\ buckets' = buckets
       /\ \A k \in FileKeys :
            /\ ReqPutFile(StorageHeader, b, k) =>
                 resp'.status = 201 /\ b \in DOMAIN buckets' /\ k \in buckets'[b]
            /\ ReqDeleteFile(StorageHeader, b, k) =>
                 IF FileExists(b, k)
                 THEN resp'.status = 200 /\ buckets' = WithoutFile(buckets, b, k)
                 ELSE resp'.status = 404 /\ buckets' = buckets]_vars

----------------------------------------------------------------------------
(* Properties of the admin gate (SpecAdmin)                                *)

\* what the gate admits: a complete configuration and 'Bearer <token>' with
\* a token signed with JWT_SECRET, not expired, of role 'admin'
AdminAdmitted(header) ==
  /\ adminEnv.adminEmail # Unset
  /\ adminEnv.adminPassword # Unset
  /\ adminEnv.jwtSecret # Unset
  /\ Len(header) = 2
  /\ header[1] = "Bearer"
  /\ header[2].kind = "jwt"
  /\ header[2].secret = adminEnv.jwtSecret
  /\ now < header[2].exp
  /\ header[2].role = "admin"

\* C24: the admin gate invokes the downstream handler exactly when the
\* configuration is complete and the header is 'Bearer <token>' with a token
\* signed with JWT_SECRET, not expired and of role 'admin'; then adminUser is
\* the token's email and role; otherwise the answer is 500 when the
\* configuration is incomplete and 401 in every other case; a token of
\* generateAdminToken expires 24 hours after its issue.
C24_AdminGate ==
  [][\A h \in AdminHeaders : ReqAdmin(h) =>
       /\ (handled' = "adminRoutes") <=> AdminAdmitted(h)
       /\ AdminAdmitted(h) =>
            adminUser' = [email |-> h[2].email, role |-> h[2].role]
       /\ ~AdminAdmitted(h) =>
            resp'.status = IF isAdminAuthConfigured(adminEnv) THEN 401 ELSE 500
       /\ \A iat \in IssueTimes :
            (/\ isAdminAuthConfigured(adminEnv)
             /\ iat <= now
             /\ h = <<"Bearer", generateAdminToken(adminEnv, ADMIN_EMAIL, iat)>>)
            => ((handled' = "adminRoutes") <=> (now - iat < TOKEN_LIFETIME_MS))
     ]_vars

\* an admin request was admitted a day after the process started, so that
\* tokens issued at the start have expired and later ones have not
C24_Witness ==
  /\ handled = "adminRoutes"
  /\ adminUser = [email |-> ADMIN_EMAIL, role |-> "admin"]
  /\ now >= TOKEN_LIFETIME_MS

----------------------------------------------------------------------------
(* Properties of the login rate limit (SpecLogin, SpecLoginRace)           *)

\* the key has 5 or more recorded failed attempts in its window, and the
\* window's resetAt has not passed
OverLimit(ip) ==
  /\ loginAttempts[ip] # <<>>
  /\ loginAttempts[ip][1].count >= RATE_LIMIT_MAX_ATTEMPTS
  /\ now <= loginAttempts[ip][1].resetAt

\* the entry of ip after one more failed attempt
AfterFailure(ip) ==
  IF loginAttempts[ip] = <<>> \/ now > loginAttempts[ip][1].resetAt
  THEN <<[count |-> 1, resetAt |-> now + RATE_LIMIT_WINDOW_MS]>>
  ELSE <<[count |-> loginAttempts[ip][1].count + 1,
          resetAt |-> loginAttempts[ip][1].resetAt]>>

C29_LimitUnderConcurrency ==
  \A ip \in Ips :
    loginAttempts[ip] # <<>> =>
      loginAttempts[ip][1].count <= RATE_LIMIT_MAX_ATTEMPTS

====
